---- MODULE Spec2Model ----
(***************************************************************************)
(* A model of the query pipeline of rag-groq: the Guardrails class         *)
(* (src/src/guardrails/policies.js) and the RAGEngine class                *)
(* (src/src/server.js).                                                    *)
(*                                                                         *)
(* Strings.  A JavaScript string is modelled as a record                   *)
(*     [body |-> <<c1, ..., cn>>, pad |-> p]                               *)
(* that stands for the characters c1..cn followed by p copies of the       *)
(* letter "z".  The padding makes strings of 2001 or 10001 characters      *)
(* representable, so the length limits keep the values of the source.  No  *)
(* term, keyword or pattern of the program contains the letter z, so a     *)
(* match never reaches into the padding.                                   *)
(*                                                                         *)
(* Scores.  A similarity score is an integer number of hundredths: the     *)
(* score 0.25 of the source is 25 here.                                    *)
(***************************************************************************)
EXTENDS Integers, Sequences, FiniteSets, TLC

----------------------------------------------------------------------------
(* Strings *)

Str(body) == [body |-> body, pad |-> 0]

Padded(body, n) == [body |-> body, pad |-> n]

EmptyStr == Str(<< >>)

StrLen(s) == Len(s.body) + s.pad

UpperLetters ==
  << "A", "B", "C", "D", "E", "F", "G", "H", "I", "J", "K", "L", "M",
     "N", "O", "P", "Q", "R", "S", "T", "U", "V", "W", "X", "Y", "Z" >>

LowerLetters ==
  << "a", "b", "c", "d", "e", "f", "g", "h", "i", "j", "k", "l", "m",
     "n", "o", "p", "q", "r", "s", "t", "u", "v", "w", "x", "y", "z" >>

Digits == { "0", "1", "2", "3", "4", "5", "6", "7", "8", "9" }

\* The lower-case letter of every upper-case letter
LowerOf ==
  [c \in { UpperLetters[i] : i \in 1..26 } |->
     LowerLetters[CHOOSE i \in 1..26 : UpperLetters[i] = c]]

toLowerChar(c) == IF c \in DOMAIN LowerOf THEN LowerOf[c] ELSE c

LowerBody(b) == [i \in 1..Len(b) |-> toLowerChar(b[i])]

\* String.prototype.toLowerCase
toLowerCase(s) == [s EXCEPT !.body = LowerBody(s.body)]

\* The regular-expression class \w
WordChars ==
  { UpperLetters[i] : i \in 1..26 } \cup { LowerLetters[i] : i \in 1..26 }
    \cup Digits \cup { "_" }

IsWordChar(c) == c \in WordChars

\* The regular-expression class \s
IsSpace(c) == c \in { " ", "\t", "\n", "\r" }

\* pat occurs in b at position i (ci: ignoring case)
MatchAt(b, i, pat, ci) ==
  /\ i >= 1
  /\ i + Len(pat) - 1 <= Len(b)
  /\ \A k \in 1..Len(pat) :
       IF ci THEN toLowerChar(b[i + k - 1]) = toLowerChar(pat[k])
             ELSE b[i + k - 1] = pat[k]

\* String.prototype.includes, for a term without padding
includes(s, term) ==
  \E i \in 1..(Len(s.body) + 1) : MatchAt(s.body, i, term.body, FALSE)

\* b.replace(/pat/g, rep) for a literal, non-empty pattern: matches are
\* found left to right and do not overlap.
RECURSIVE ReplaceLit(_, _, _, _)
ReplaceLit(b, pat, rep, ci) ==
  IF Len(b) < Len(pat) THEN b
  ELSE IF MatchAt(b, 1, pat, ci)
    THEN rep \o ReplaceLit(SubSeq(b, Len(pat) + 1, Len(b)), pat, rep, ci)
    ELSE << b[1] >> \o ReplaceLit(Tail(b), pat, rep, ci)

\* The first index j >= i at which b[j] is not a word character (Len(b)+1
\* when there is none).
RECURSIVE WordRunEnd(_, _)
WordRunEnd(b, i) ==
  IF i > Len(b) \/ ~IsWordChar(b[i]) THEN i ELSE WordRunEnd(b, i + 1)

RECURSIVE SpaceRunEnd(_, _)
SpaceRunEnd(b, i) ==
  IF i > Len(b) \/ ~IsSpace(b[i]) THEN i ELSE SpaceRunEnd(b, i + 1)

\* /on\w+\s*=/i at position 1 of b: the index of the last character of the
\* match, 0 when there is no match.  \w, \s and "=" are disjoint, so the
\* greedy match is the only one.
OnHandlerEnd(b) ==
  IF ~MatchAt(b, 1, << "o", "n" >>, TRUE) THEN 0
  ELSE LET w == WordRunEnd(b, 3)
           s == SpaceRunEnd(b, w)
       IN  IF w > 3 /\ s <= Len(b) /\ b[s] = "=" THEN s ELSE 0

\* b.replace(/on\w+\s*=/gi, '')
RECURSIVE RemoveOnHandlers(_)
RemoveOnHandlers(b) ==
  IF Len(b) = 0 THEN b
  ELSE IF OnHandlerEnd(b) > 0
    THEN RemoveOnHandlers(SubSeq(b, OnHandlerEnd(b) + 1, Len(b)))
    ELSE << b[1] >> \o RemoveOnHandlers(Tail(b))

ScriptOpen == << "<", "s", "c", "r", "i", "p", "t" >>

ScriptClose == << "<", "/", "s", "c", "r", "i", "p", "t", ">" >>

\* The first index j >= i with b[j] = c, 0 when there is none.
RECURSIVE IndexOfChar(_, _, _)
IndexOfChar(b, c, i) ==
  IF i > Len(b) THEN 0
  ELSE IF b[i] = c THEN i ELSE IndexOfChar(b, c, i + 1)

\* The first index j >= i at which pat occurs (ignoring case), 0 when none.
RECURSIVE IndexOfLit(_, _, _)
IndexOfLit(b, pat, i) ==
  IF i + Len(pat) - 1 > Len(b) THEN 0
  ELSE IF MatchAt(b, i, pat, TRUE) THEN i ELSE IndexOfLit(b, pat, i + 1)

\* /<script[^>]*>[\s\S]*?<\/script>/i at position 1 of b: the index of the
\* last character of the match, 0 when there is no match.
ScriptEnd(b) ==
  IF ~MatchAt(b, 1, ScriptOpen, TRUE) THEN 0
  ELSE LET gt == IndexOfChar(b, ">", Len(ScriptOpen) + 1)
       IN  IF gt = 0 THEN 0
           ELSE LET cl == IndexOfLit(b, ScriptClose, gt + 1)
                IN  IF cl = 0 THEN 0 ELSE cl + Len(ScriptClose) - 1

\* b.replace(/<script[^>]*>[\s\S]*?<\/script>/gi, '')
RECURSIVE RemoveScripts(_)
RemoveScripts(b) ==
  IF Len(b) = 0 THEN b
  ELSE IF ScriptEnd(b) > 0
    THEN RemoveScripts(SubSeq(b, ScriptEnd(b) + 1, Len(b)))
    ELSE << b[1] >> \o RemoveScripts(Tail(b))

\* b.replace(/['";\\]/g, '')
RemoveSqlChars(b) == SelectSeq(b, LAMBDA c : c \notin { "'", "\"", ";", "\\" })

\* b.replace(/\s+/g, ' ')
RECURSIVE CollapseSpaces(_)
CollapseSpaces(b) ==
  IF Len(b) = 0 THEN b
  ELSE IF IsSpace(b[1])
    THEN << " " >> \o CollapseSpaces(SubSeq(b, SpaceRunEnd(b, 1), Len(b)))
    ELSE << b[1] >> \o CollapseSpaces(Tail(b))

RECURSIVE TrimStart(_)
TrimStart(b) ==
  IF Len(b) > 0 /\ IsSpace(b[1]) THEN TrimStart(Tail(b)) ELSE b

RECURSIVE TrimEnd(_)
TrimEnd(b) ==
  IF Len(b) > 0 /\ IsSpace(b[Len(b)])
    THEN TrimEnd(SubSeq(b, 1, Len(b) - 1))
    ELSE b

\* String.prototype.trim: the padding, when there is one, is the end of the
\* string and is not white space.
trim(s) ==
  IF s.pad > 0 THEN [s EXCEPT !.body = TrimStart(s.body)]
  ELSE [s EXCEPT !.body = TrimEnd(TrimStart(s.body))]

\* Guardrails.sanitizeInput
sanitizeInput(text) ==
  IF StrLen(text) = 0 THEN EmptyStr
  ELSE trim([text EXCEPT !.body =
         CollapseSpaces(
           RemoveSqlChars(
             RemoveOnHandlers(
               ReplaceLit(RemoveScripts(text.body),
                          << "j", "a", "v", "a", "s", "c", "r", "i", "p", "t", ":" >>,
                          << >>, TRUE))))])

Lt == << "&", "l", "t", ";" >>

Gt == << "&", "g", "t", ";" >>

\* The whitelist of formatting tags restored after escaping
RestoreTags(b) ==
  LET r1 == ReplaceLit(b, Lt \o << "b", "r" >> \o Gt, << "<", "b", "r", ">" >>, FALSE)
      r2 == ReplaceLit(r1, Lt \o << "s", "t", "r", "o", "n", "g" >> \o Gt,
                       << "<", "s", "t", "r", "o", "n", "g", ">" >>, FALSE)
      r3 == ReplaceLit(r2, Lt \o << "/", "s", "t", "r", "o", "n", "g" >> \o Gt,
                       << "<", "/", "s", "t", "r", "o", "n", "g", ">" >>, FALSE)
      r4 == ReplaceLit(r3, Lt \o << "e", "m" >> \o Gt, << "<", "e", "m", ">" >>, FALSE)
  IN  ReplaceLit(r4, Lt \o << "/", "e", "m" >> \o Gt, << "<", "/", "e", "m", ">" >>, FALSE)

\* Guardrails.sanitizeOutput
sanitizeOutput(text) ==
  IF StrLen(text) = 0 THEN EmptyStr
  ELSE trim([text EXCEPT !.body =
         RestoreTags(
           ReplaceLit(
             ReplaceLit(RemoveOnHandlers(RemoveScripts(text.body)),
                        << "<" >>, Lt, FALSE),
             << ">" >>, Gt, FALSE))])

----------------------------------------------------------------------------
(* State *)

VARIABLES
  \* Guardrails (policies.js)
  enabled,          \* this.enabled
  blockedTerms,     \* this.blockedTerms, a sequence of strings
  sensitiveTopics,  \* this.sensitiveTopics, a sequence of strings
  rateLimit,        \* this.rateLimit: Null or [requests, window]
  requestCounts,    \* this.requestCounts: user id -> sequence of timestamps
  now,              \* the clock read by Date.now()
  calls             \* history of the direct validateQuery calls

guardVars ==
  << enabled, blockedTerms, sensitiveTopics, rateLimit, requestCounts, now, calls >>

\* null / undefined
Null == [null |-> TRUE]

\* An absent string (undefined)
Undefined == [body |-> << >>, pad |-> -1]

\* JavaScript truthiness of a string or undefined
Truthy(s) == s.pad >= 0 /\ StrLen(s) > 0

\* a || b
OrElse(a, b) == IF Truthy(a) THEN a ELSE b

----------------------------------------------------------------------------
(* Guardrails *)

\* config.maxQueryLength || 2000
maxQueryLength == 2000

\* config.maxResponseLength || 10000
maxResponseLength == 10000

\* Date.now() runs from 0 to MaxTime in the histories of direct
\* validateQuery calls, and from 0 to MaxClock while the engine serves requests
MaxTime == 3

MaxClock == 1

\* The number of direct validateQuery calls in one history
MaxCalls == 3

Users == { "default", "u2" }

NoReason == [msg |-> "", a |-> 0, b |-> 0]

\* `Query exceeds maximum length of ${this.maxQueryLength} characters`
QueryLengthReason ==
  [msg |-> "Query exceeds maximum length of <a> characters",
   a |-> maxQueryLength, b |-> 0]

\* `Rate limit exceeded. Maximum ${requests} requests per ${window / 1000} seconds`
RateLimitReason ==
  [msg |-> "Rate limit exceeded. Maximum <a> requests per <b>/1000 seconds",
   a |-> rateLimit.requests, b |-> rateLimit.window]

BlockedContentReason ==
  [msg |-> "Query contains blocked content", a |-> 0, b |-> 0]

SensitiveMessage ==
  "This query may involve sensitive topics. Responses are for informational purposes only."

\* The length check against the limit of the responses instead
QueryTooLongForResponse(query) == StrLen(query) > maxResponseLength

\* query.length > this.maxQueryLength
QueryTooLong(query) == StrLen(query) > maxQueryLength

\* One list of timestamps for all the users
userRequestsOfAll(userId) ==
  (IF "default" \in DOMAIN requestCounts THEN requestCounts["default"] ELSE << >>)
    \o (IF "u2" \in DOMAIN requestCounts THEN requestCounts["u2"] ELSE << >>)

\* this.requestCounts.get(userId) || []
userRequests(userId) ==
  IF userId \in DOMAIN requestCounts THEN requestCounts[userId] ELSE << >>

\* A window that still holds the request made exactly W ms ago
recentRequestsInclusive(userId) ==
  SelectSeq(userRequests(userId), LAMBDA time : now - time <= rateLimit.window)

\* userRequests.filter(time => now - time < this.rateLimit.window)
recentRequests(userId) ==
  SelectSeq(userRequests(userId), LAMBDA time : now - time < rateLimit.window)

\* recentRequests.length >= this.rateLimit.requests
RateLimitExceeded(userId) ==
  /\ rateLimit # Null
  /\ Len(recentRequests(userId)) >= rateLimit.requests

\* The loop over this.blockedTerms of validateQuery and validateDocument
ContainsBlockedTerm(lowerText) ==
  \E i \in 1..Len(blockedTerms) :
    includes(lowerText, toLowerCase(blockedTerms[i]))

\* No sensitive topic ever found
sensitiveNeverFound(lowerQuery) == << >>

\* The sensitive topics found, in the order of this.sensitiveTopics
sensitiveFound(lowerQuery) ==
  SelectSeq(sensitiveTopics, LAMBDA topic : includes(lowerQuery, toLowerCase(topic)))

\* validateQuery, were it not to read this.enabled
validateQueryAlwaysOn(query, userId) ==
  IF QueryTooLong(query)
    THEN [allowed |-> FALSE, reason |-> QueryLengthReason,
          sanitized |-> Undefined, warnings |-> Null]
  ELSE IF RateLimitExceeded(userId)
    THEN [allowed |-> FALSE, reason |-> RateLimitReason,
          sanitized |-> Undefined, warnings |-> Null]
  ELSE LET sanitized  == sanitizeInput(query)
           lowerQuery == toLowerCase(sanitized)
       IN  IF ContainsBlockedTerm(lowerQuery)
             THEN [allowed |-> FALSE, reason |-> BlockedContentReason,
                   sanitized |-> sanitized, warnings |-> Null]
             ELSE [allowed |-> TRUE, reason |-> NoReason,
                   sanitized |-> sanitized, warnings |-> Null]

\* The value validateQuery(query, userId) returns
validateQuery(query, userId) ==
  IF ~enabled
    THEN [allowed |-> TRUE, reason |-> NoReason, sanitized |-> query,
          warnings |-> Null]
  ELSE IF QueryTooLong(query)
    THEN [allowed |-> FALSE, reason |-> QueryLengthReason,
          sanitized |-> Undefined, warnings |-> Null]
  ELSE IF RateLimitExceeded(userId)
    THEN [allowed |-> FALSE, reason |-> RateLimitReason,
          sanitized |-> Undefined, warnings |-> Null]
  ELSE LET sanitized  == sanitizeInput(query)
           lowerQuery == toLowerCase(sanitized)
       IN  IF ContainsBlockedTerm(lowerQuery)
             THEN [allowed |-> FALSE, reason |-> BlockedContentReason,
                   sanitized |-> sanitized, warnings |-> Null]
             ELSE [allowed |-> TRUE, reason |-> NoReason,
                   sanitized |-> sanitized,
                   warnings |->
                     IF Len(sensitiveFound(lowerQuery)) > 0
                       THEN [sensitiveTopics |-> sensitiveFound(lowerQuery),
                             message |-> SensitiveMessage]
                       ELSE Null]

\* this.requestCounts, were the new timestamp pushed onto the stored list
\* instead of the filtered one
validateQueryCountsUnpruned(query, userId) ==
  IF enabled /\ ~QueryTooLong(query) /\ rateLimit # Null
       /\ ~RateLimitExceeded(userId)
    THEN (userId :> Append(userRequests(userId), now)) @@ requestCounts
    ELSE requestCounts

\* this.requestCounts, were the timestamp recorded for the allowed requests
\* alone
validateQueryCountsAllowed(query, userId) ==
  IF rateLimit # Null /\ enabled /\ validateQuery(query, userId).allowed
    THEN (userId :> Append(recentRequests(userId), now)) @@ requestCounts
    ELSE requestCounts

\* this.requestCounts after validateQuery(query, userId): the timestamp is
\* recorded when the request gets past the length and the rate-limit check.
validateQueryCounts(query, userId) ==
  IF enabled /\ ~QueryTooLong(query) /\ rateLimit # Null
       /\ ~RateLimitExceeded(userId)
    THEN (userId :> Append(recentRequests(userId), now)) @@ requestCounts
    ELSE requestCounts

\* lowerText contains one of the terms
IncludesAny(lowerText, terms) ==
  \E i \in 1..Len(terms) : includes(lowerText, terms[i])

explicitTerms ==
  << Str(<< "e", "x", "p", "l", "i", "c", "i", "t" >>),
     Str(<< "n", "s", "f", "w" >>),
     Str(<< "a", "d", "u", "l", "t", " ", "c", "o", "n", "t", "e", "n", "t" >>) >>

violenceTerms ==
  << Str(<< "k", "i", "l", "l" >>),
     Str(<< "m", "u", "r", "d", "e", "r" >>),
     Str(<< "v", "i", "o", "l", "e", "n", "c", "e" >>),
     Str(<< "h", "a", "r", "m" >>),
     Str(<< "a", "t", "t", "a", "c", "k" >>) >>

medicalKeywords ==
  << Str(<< "s", "y", "m", "p", "t", "o", "m" >>),
     Str(<< "d", "i", "a", "g", "n", "o", "s", "i", "s" >>),
     Str(<< "t", "r", "e", "a", "t", "m", "e", "n", "t" >>),
     Str(<< "m", "e", "d", "i", "c", "a", "l" >>) >>

legalKeywords ==
  << Str(<< "l", "e", "g", "a", "l" >>),
     Str(<< "l", "a", "w" >>),
     Str(<< "l", "a", "w", "s", "u", "i", "t" >>),
     Str(<< "a", "t", "t", "o", "r", "n", "e", "y" >>) >>

financialKeywords ==
  << Str(<< "i", "n", "v", "e", "s", "t", "m", "e", "n", "t" >>),
     Str(<< "s", "t", "o", "c", "k" >>),
     Str(<< "f", "i", "n", "a", "n", "c", "i", "a", "l" >>),
     Str(<< "t", "r", "a", "d", "i", "n", "g" >>) >>

\* this.policies: config.policies || this.getDefaultPolicies()
policies ==
  [blockedTerms |->
     << Str(<< "h", "a", "c", "k" >>),
        Str(<< "e", "x", "p", "l", "o", "i", "t" >>),
        Str(<< "m", "a", "l", "w", "a", "r", "e" >>),
        Str(<< "v", "i", "r", "u", "s" >>),
        Str(<< "p", "h", "i", "s", "h", "i", "n", "g" >>),
        Str(<< "i", "l", "l", "e", "g", "a", "l" >>),
        Str(<< "u", "n", "l", "a", "w", "f", "u", "l" >>),
        Str(<< "h", "a", "r", "m", "f", "u", "l" >>),
        Str(<< "d", "a", "n", "g", "e", "r", "o", "u", "s" >>) >>,
   sensitiveTopics |->
     << Str(<< "m", "e", "d", "i", "c", "a", "l", " ", "a", "d", "v", "i", "c", "e" >>),
        Str(<< "l", "e", "g", "a", "l", " ", "a", "d", "v", "i", "c", "e" >>),
        Str(<< "f", "i", "n", "a", "n", "c", "i", "a", "l", " ", "a", "d", "v", "i", "c", "e" >>),
        Str(<< "p", "e", "r", "s", "o", "n", "a", "l", " ", "i", "n", "f", "o", "r", "m", "a", "t", "i", "o", "n" >>),
        Str(<< "p", "r", "i", "v", "a", "t", "e", " ", "d", "a", "t", "a" >>) >>,
   contentModeration |->
     [blockExplicit |-> TRUE, blockViolence |-> TRUE, blockHateSpeech |-> TRUE],
   responsePolicies |->
     [noMedicalDiagnosis |-> TRUE, noLegalAdvice |-> TRUE,
      noFinancialAdvice |-> TRUE, citeSources |-> TRUE]]

\* A violence term blocks a response shorter than this
ShortResponseLength == 500

InappropriateReason ==
  [msg |-> "Response contains inappropriate content", a |-> 0, b |-> 0]

ViolentReason ==
  [msg |-> "Response may contain violent content", a |-> 0, b |-> 0]

\* `Response exceeds maximum length of ${this.maxResponseLength} characters`
ResponseLengthReason ==
  [msg |-> "Response exceeds maximum length of <a> characters",
   a |-> maxResponseLength, b |-> 0]

\* The moderation, were a violence term to block a response of any length
checkContentModerationAnyLength(text) ==
  LET lowerText == toLowerCase(text)
  IN  IF IncludesAny(lowerText, explicitTerms)
        THEN [allowed |-> FALSE, reason |-> InappropriateReason]
      ELSE IF IncludesAny(lowerText, violenceTerms)
        THEN [allowed |-> FALSE, reason |-> ViolentReason]
      ELSE [allowed |-> TRUE, reason |-> NoReason]

\* Guardrails.checkContentModeration
checkContentModeration(text) ==
  LET lowerText == toLowerCase(text)
  IN  IF policies.contentModeration.blockExplicit
           /\ IncludesAny(lowerText, explicitTerms)
        THEN [allowed |-> FALSE, reason |-> InappropriateReason]
      ELSE IF policies.contentModeration.blockViolence
           /\ IncludesAny(lowerText, violenceTerms)
           /\ StrLen(lowerText) < ShortResponseLength
        THEN [allowed |-> FALSE, reason |-> ViolentReason]
      ELSE [allowed |-> TRUE, reason |-> NoReason]

\* response.length > this.maxResponseLength
ResponseTooLong(response) == StrLen(response) > maxResponseLength

\* Guardrails.validateResponse
validateResponse(response) ==
  IF ~enabled
    THEN [allowed |-> TRUE, reason |-> NoReason, sanitized |-> response]
  ELSE IF ResponseTooLong(response)
    THEN [allowed |-> FALSE, reason |-> ResponseLengthReason,
          sanitized |-> Undefined]
  ELSE LET sanitized == sanitizeOutput(response)
           checks    == checkContentModeration(sanitized)
       IN  IF ~checks.allowed
             THEN [allowed |-> FALSE, reason |-> checks.reason,
                   sanitized |-> sanitized]
             ELSE [allowed |-> TRUE, reason |-> NoReason,
                   sanitized |-> sanitized]

MedicalDisclaimer ==
  "This is not medical advice. Consult a healthcare professional for medical concerns."

LegalDisclaimer ==
  "This is not legal advice. Consult a qualified attorney for legal matters."

FinancialDisclaimer ==
  "This is not financial advice. Consult a financial advisor for investment decisions."

\* The disclaimers applyResponsePolicies collects for a query
disclaimersFor(query) ==
  LET lowerQuery == toLowerCase(query)
  IN  (IF policies.responsePolicies.noMedicalDiagnosis
            /\ IncludesAny(lowerQuery, medicalKeywords)
         THEN << MedicalDisclaimer >> ELSE << >>)
      \o (IF policies.responsePolicies.noLegalAdvice
            /\ IncludesAny(lowerQuery, legalKeywords)
         THEN << LegalDisclaimer >> ELSE << >>)
      \o (IF policies.responsePolicies.noFinancialAdvice
            /\ IncludesAny(lowerQuery, financialKeywords)
         THEN << FinancialDisclaimer >> ELSE << >>)

\* A text followed by appended blocks of lines: text + '\n\n' + lines.join('\n')
\* for every block of tail, in order.
Text(s) == [text |-> s, tail |-> << >>]

\* Guardrails.applyResponsePolicies: response is a Text
applyResponsePolicies(response, query) ==
  IF Len(disclaimersFor(query)) > 0
    THEN [response EXCEPT !.tail = Append(@, disclaimersFor(query))]
    ELSE response

\* Guardrails.validateDocument
validateDocument(content) ==
  IF ~enabled THEN [allowed |-> TRUE, reason |-> NoReason]
  ELSE IF ContainsBlockedTerm(toLowerCase(content))
    THEN [allowed |-> FALSE,
          reason |-> [msg |-> "Document contains blocked content", a |-> 0, b |-> 0]]
    ELSE [allowed |-> TRUE, reason |-> NoReason]

----------------------------------------------------------------------------
(* RAGEngine: state *)

VARIABLES
  hasGuardrails,    \* this.guardrails is set
  embeddings,       \* this.embeddings is set
  dsDocs,           \* the documents of this.dataSource, in order
  documentVectors,  \* this.documentVectors: id -> document with vector
  initialized,      \* this.initialized
  topK,             \* this.topK
  \* the request in flight
  pc,               \* where the request is: idle, retrieving, generating, done, threw
  entry,            \* the method called: query, queryWithRAG, queryDirectLLM
  rawQuery,         \* the query argument as passed by the caller
  query,            \* the local variable query (reassigned to the sanitized text)
  options,          \* the options argument
  retrievedDocs, routingInfo, mode, systemPrompt, validation, filteredDocs,
  llmArgs,          \* the arguments of the llm.generateResponse calls of the request
  answer,           \* what llm.generateResponse returned
  result,           \* the value returned (or the error thrown)
  events,           \* the collaborator and guardrail calls of the request, in order
  tablesSeen,       \* the policy tables when query() was called, and when
                    \* its validateQuery and validateDocument calls read them
  \* a direct call of retrieve(query, k) or routeQuery(query)
  retrieveK, retrieveResult,
  similarityInput,  \* the last retrieval's call of findSimilar: documents, limit, similarities
  routeResult,      \* what routeQuery returned, when it made the last retrieval
  retrievePc,       \* where a retrieveByVector is: idle, or embedding (awaiting embed(query))
  adding,           \* the addDocument in flight: Null, or its document and await
  cachedDocumentCount,  \* the data source's _cachedDocumentCount
  \* the collaborators and the index life cycle
  hasDataSource,    \* this.dataSource is set
  hasLlm,           \* this.llm is set
  lifecycle,        \* the last initialize()/close() that completed, and that threw
  vocabulary,       \* the corpus texts the embeddings were last initialized with
  refreshPc,        \* where refresh() is: idle, loading, vocabulary, indexing, done
  buildQueue,       \* the documents buildVectorIndex has still to embed
  \* queryStream
  emitted,          \* the events the generator has yielded
  stream            \* the backend stream: Null, or the chunks left and how it ends

engineVars ==
  << hasGuardrails, embeddings, dsDocs, documentVectors, initialized, topK >>

requestVars ==
  << pc, entry, rawQuery, query, options, retrievedDocs, routingInfo, mode,
     systemPrompt, validation, filteredDocs, llmArgs, answer, result, events,
     tablesSeen >>

pendingVars == << retrievePc, adding, cachedDocumentCount >>

retrieveVars ==
  << retrieveK, retrieveResult, similarityInput, routeResult, pendingVars >>

lifecycleVars == << hasDataSource, hasLlm, lifecycle >>

refreshVars == << vocabulary, refreshPc, buildQueue >>

streamVars == << emitted, stream >>

restVars == << lifecycleVars, refreshVars, streamVars >>

vars == << guardVars, engineVars, requestVars, retrieveVars, restVars >>

\* config.similarityThreshold || 0.15, in hundredths
similarityThreshold == 15

\* config.routingThreshold || 0.25, in hundredths
routingThreshold == 25

\* config.topK || 10
DefaultTopK == 10

\* The scores a similarity search may report, in hundredths
Scores == { 0, 15, 25 }

Doc(id, content) == [id |-> id, content |-> content, metadata |-> id]

d1 == Doc("d1", Str(<< "o", "k" >>))

\* contains the blocked term, in another case
d2 == Doc("d2", Str(<< "a", " ", "B", "A", "D", " ", "d" >>))

\* longer than a preview
d3 == Doc("d3", Padded(<< "o", "k" >>, 300))

Min(a, b) == IF a < b THEN a ELSE b

Take(s, n) == SubSeq(s, 1, Min(n, Len(s)))

RECURSIVE SumScores(_)
SumScores(docs) ==
  IF Len(docs) = 0 THEN 0 ELSE docs[1].score + SumScores(Tail(docs))

NonIncreasing(s) == \A i \in 1..(Len(s) - 1) : s[i].score >= s[i + 1].score

DistinctIds(s) == \A i, j \in 1..Len(s) : i # j => s[i].id # s[j].id

----------------------------------------------------------------------------
(* Collaborators *)

\* documents.map(d => d.content)
CorpusTexts == [i \in 1..Len(dsDocs) |-> dsDocs[i].content]

\* The vector of a text under a vocabulary
embedWith(text, vocab) == [of |-> text, vocabulary |-> vocab]

\* embeddings.embed(text): a deterministic function of the text and of the
\* vocabulary built by embeddings.initialize / buildVocabulary
embed(text) == embedWith(text, vocabulary)

\* embeddings.findSimilar(queryVector, documents, k): the k best documents
\* as {id, score}, by score descending.  The scores are those of some
\* scoring of the documents, so every descending list of distinct documents
\* of that length is a possible value.
findSimilar(ids, k) ==
  { s \in [1..Min(k, Cardinality(ids)) -> [id : ids, score : Scores]] :
      DistinctIds(s) /\ NonIncreasing(s) }

\* dataSource.search(query, limit), as ElasticsearchDataSource.search: at most
\* `size: limit` hits, in the order of the search engine (best score first);
\* the empty list when the search fails.
search(docs, limit) ==
  LET ids == { docs[i].id : i \in 1..Len(docs) }
      byId(id) == docs[CHOOSE i \in 1..Len(docs) : docs[i].id = id]
  IN  { [i \in 1..Len(s) |->
           [id |-> s[i].id, content |-> byId(s[i].id).content,
            metadata |-> byId(s[i].id).metadata, score |-> s[i].score]] :
        s \in UNION { findSimilar(ids, n) : n \in 0..limit } }

\* llm.generateResponse: the answers the backend may give
\* sanitizeOutput escapes the tag
aOk == Str(<< "<", "b", ">", "o", "k" >>)

aKill == Str(<< "K", "i", "l", "l" >>)

\* 10001 characters
aLong == Padded(<< "o", "k" >>, 9999)

Answers == { aOk, aKill, aLong }

----------------------------------------------------------------------------
(* RAGEngine: retrieval *)

\* The {id, content, metadata, score} pushed for a similarity {id, score}
ResultOf(sim) ==
  [id |-> documentVectors[sim.id].id,
   content |-> documentVectors[sim.id].content,
   metadata |-> documentVectors[sim.id].metadata,
   score |-> sim.score]

ResultsOf(sims) == [i \in 1..Len(sims) |-> ResultOf(sims[i])]

\* The loop without its results.length < topK condition
AboveThresholdUncapped(similarities, k) ==
  SelectSeq(similarities, LAMBDA s : s.score >= similarityThreshold)

\* The loop of retrieveByVector: the similarities at or above the threshold,
\* while results.length < topK
AboveThreshold(similarities, k) ==
  Take(SelectSeq(similarities, LAMBDA s : s.score >= similarityThreshold), k)

\* retrieveByVector without its 'return top results anyway' block
retrieveByVectorNoFallback(similarities, k) ==
  ResultsOf(AboveThreshold(similarities, k))

\* RAGEngine.retrieveByVector, given what findSimilar returned
retrieveByVector(similarities, k) ==
  IF Len(AboveThreshold(similarities, k)) = 0 /\ Len(similarities) > 0
    THEN ResultsOf(Take(similarities, k))
    ELSE ResultsOf(AboveThreshold(similarities, k))

\* The vector path taken whenever embeddings are configured
UsesVectorIndexWhenConfigured == embeddings

\* RAGEngine.retrieve takes the vector path
UsesVectorIndex == embeddings /\ Cardinality(DOMAIN documentVectors) > 0

\* Array.from(this.documentVectors.values()), the documents handed to
\* findSimilar; Null when retrieve falls back to dataSource.search
SimilarityDocuments ==
  IF UsesVectorIndex
    THEN [documents |-> { documentVectors[id] : id \in DOMAIN documentVectors }]
    ELSE Null

\* The number of candidates asked of findSimilar, were it topK itself
CandidateLimitTopK(k) == k

\* The third argument of findSimilar in retrieveByVector: topK * 2
CandidateLimit(k) == k * 2

\* The values retrieve(query, k) may return
retrieve(k) ==
  IF UsesVectorIndex
    THEN { retrieveByVector(s, k) :
             s \in findSimilar(DOMAIN documentVectors, CandidateLimit(k)) }
    ELSE search(dsDocs, k)

\* retrieve(query, k) with what it handed to findSimilar and what findSimilar
\* returned: the values it may return, each with the call that produced it
\* (Null when retrieve falls back to dataSource.search)
retrieveTraced(k) ==
  IF UsesVectorIndex
    THEN { [result |-> retrieveByVector(s, k),
            input |-> [documents |-> SimilarityDocuments.documents,
                       limit |-> CandidateLimit(k),
                       similarities |-> s]] :
             s \in findSimilar(DOMAIN documentVectors, CandidateLimit(k)) }
    ELSE { [result |-> r, input |-> Null] : r \in search(dsDocs, k) }

\* The collaborator calls of retrieve
retrieveEvents ==
  IF UsesVectorIndex THEN << "retrieve", "embeddings.embed" >>
                     ELSE << "retrieve", "dataSource.search" >>

\* this.documentVectors.set(doc.id, { ...doc, vector })
SetEntry(index, doc, vector) ==
  [id \in DOMAIN index \cup { doc.id } |->
     IF id = doc.id
       THEN [id |-> doc.id, content |-> doc.content, metadata |-> doc.metadata,
             vector |-> vector]
       ELSE index[id]]

\* The index after the loop of buildVectorIndex has run over docs
RECURSIVE IndexAfter(_, _, _)
IndexAfter(index, docs, vocab) ==
  IF Len(docs) = 0 THEN index
  ELSE IndexAfter(SetEntry(index, Head(docs), embedWith(Head(docs).content, vocab)),
                  Tail(docs), vocab)

\* RAGEngine.buildVectorIndex run to its end, with the vectors of a
\* vocabulary: this.documentVectors after it
buildVectorIndexWith(vocab) ==
  [id \in DOMAIN documentVectors \cup { dsDocs[i].id : i \in 1..Len(dsDocs) } |->
     IF \E i \in 1..Len(dsDocs) : dsDocs[i].id = id
       THEN LET doc == dsDocs[CHOOSE i \in 1..Len(dsDocs) :
                                /\ dsDocs[i].id = id
                                /\ \A j \in (i + 1)..Len(dsDocs) : dsDocs[j].id # id]
            IN  [id |-> doc.id, content |-> doc.content,
                 metadata |-> doc.metadata, vector |-> embedWith(doc.content, vocab)]
       ELSE documentVectors[id]]

\* RAGEngine.buildVectorIndex: this.documentVectors after it
buildVectorIndex == buildVectorIndexWith(vocabulary)

\* A routing decision that takes a top score equal to the routing threshold
\* for a low one
routeQueryStrict(docs) ==
  IF Len(docs) = 0
    THEN [useRAG |-> FALSE, reason |-> "no_documents", topScore |-> Null,
          avgScore |-> Null, docs |-> << >>]
  ELSE IF docs[1].score <= routingThreshold
    THEN [useRAG |-> FALSE, reason |-> "low_relevance", topScore |-> docs[1].score,
          avgScore |-> [sum |-> SumScores(docs), count |-> Len(docs)], docs |-> docs]
    ELSE [useRAG |-> TRUE, reason |-> "relevant_content", topScore |-> docs[1].score,
          avgScore |-> [sum |-> SumScores(docs), count |-> Len(docs)], docs |-> docs]

\* RAGEngine.routeQuery, given what retrieve returned.  topScore is
\* retrievedDocs[0]?.score || 0; a result without topScore and avgScore has
\* Null there.
routeQuery(docs) ==
  IF Len(docs) = 0
    THEN [useRAG |-> FALSE, reason |-> "no_documents", topScore |-> Null,
          avgScore |-> Null, docs |-> << >>]
  ELSE IF docs[1].score < routingThreshold
    THEN [useRAG |-> FALSE, reason |-> "low_relevance", topScore |-> docs[1].score,
          avgScore |-> [sum |-> SumScores(docs), count |-> Len(docs)], docs |-> docs]
    ELSE [useRAG |-> TRUE, reason |-> "relevant_content", topScore |-> docs[1].score,
          avgScore |-> [sum |-> SumScores(docs), count |-> Len(docs)], docs |-> docs]

----------------------------------------------------------------------------
(* RAGEngine: query *)

NotInitializedError ==
  [error |-> "RAG engine not initialized. Call initialize() first."]

\* An answer: a fixed prefix, a text, and the reason a prefix announces
PlainAnswer(t) == [prefix |-> "", body |-> t, reason |-> NoReason]

\* `I cannot process this query: ${validation.reason}`
CannotProcess(r) ==
  [prefix |-> "I cannot process this query: ", body |-> Text(EmptyStr), reason |-> r]

\* `Response blocked: ${responseValidation.reason}`
ResponseBlocked(r) ==
  [prefix |-> "Response blocked: ", body |-> Text(EmptyStr), reason |-> r]

\* options.topK || this.topK
TopKOf(opts) == IF opts.topK # 0 THEN opts.topK ELSE topK

\* Retrieval in every mode
RetrievalNeverSkipped(m) == FALSE

\* Retrieval in no mode
RetrievalAlwaysSkipped(m) == TRUE

\* if (mode !== 'llm') retrieve: retrieval is skipped for the mode llm
RetrievalSkipped(m) == m = "llm"

\* case 'llm': retrievedDocs = [], in the switch that runs without an
\* options.systemPrompt
DocsAfterSwitch(m, optPrompt, docs) ==
  IF optPrompt = "undefined" /\ m = "llm" THEN << >> ELSE docs

\* options.mode || 'hybrid'
RequestedMode(opts) == IF opts.mode = "undefined" THEN "hybrid" ELSE opts.mode

\* validateQuery(query, userId = 'default')
UserOf(opts) == IF opts.userId = "undefined" THEN "default" ELSE opts.userId

\* routingInfo = {topScore, avgScore, docCount}; avgScore is sum / count
RoutingInfoOf(docs) ==
  [topScore |-> IF Len(docs) > 0 THEN docs[1].score ELSE 0,
   avgScore |-> IF Len(docs) > 0
                  THEN [sum |-> SumScores(docs), count |-> Len(docs)]
                  ELSE [sum |-> 0, count |-> 1],
   docCount |-> Len(docs)]

\* The prompt and the mode, were the switch on the mode to run whatever
\* options.systemPrompt is
PromptByModeAlone(m, optPrompt, routing) ==
  IF m = "hybrid" THEN [systemPrompt |-> "getHybridPrompt", mode |-> "hybrid"]
  ELSE IF m = "rag" THEN [systemPrompt |-> "null", mode |-> "rag"]
  ELSE IF m = "llm" THEN [systemPrompt |-> "getDirectLLMPrompt", mode |-> "llm"]
  ELSE IF routing # Null /\ routing.topScore >= routingThreshold
    THEN [systemPrompt |-> "getHybridPrompt", mode |-> "hybrid"]
    ELSE [systemPrompt |-> "getDirectLLMPrompt", mode |-> "llm"]

\* The prompt and the mode after the switch on the mode: the switch runs
\* only when options.systemPrompt is not given.
PromptAndMode(m, optPrompt, routing) ==
  IF optPrompt # "undefined" THEN [systemPrompt |-> optPrompt, mode |-> m]
  ELSE IF m = "hybrid" THEN [systemPrompt |-> "getHybridPrompt", mode |-> "hybrid"]
  ELSE IF m = "rag" THEN [systemPrompt |-> "null", mode |-> "rag"]
  ELSE IF m = "llm" THEN [systemPrompt |-> "getDirectLLMPrompt", mode |-> "llm"]
  ELSE IF routing # Null /\ routing.topScore >= routingThreshold
    THEN [systemPrompt |-> "getHybridPrompt", mode |-> "hybrid"]
    ELSE [systemPrompt |-> "getDirectLLMPrompt", mode |-> "llm"]

\* let validation = { allowed: true, sanitized: query }; with guardrails,
\* validation = this.guardrails.validateQuery(query, options.userId)
QueryValidation(q, opts) ==
  IF hasGuardrails THEN validateQuery(q, UserOf(opts))
  ELSE [allowed |-> TRUE, reason |-> NoReason, sanitized |-> q, warnings |-> Null]

\* No document filter
KeepAllDocs(docs) == docs

\* retrievedDocs.filter(doc => validateDocument(doc.content).allowed)
FilterDocs(docs) ==
  IF hasGuardrails
    THEN SelectSeq(docs, LAMBDA doc : validateDocument(doc.content).allowed)
    ELSE docs

\* mode === 'llm' ? [] : filteredDocs
GenerationContext(m, docs) == IF m = "llm" THEN << >> ELSE docs

\* content.substring(0, 200) + (content.length > 200 ? '...' : ''), for a
\* content whose body is shorter than 200 characters
Preview(content) ==
  [text |-> Padded(content.body, Min(content.pad, 200 - Len(content.body))),
   ellipsis |-> StrLen(content) > 200]

\* filteredDocs.map(doc => ({id, content, preview, metadata, score}))
SourcesOf(docs) ==
  [i \in 1..Len(docs) |->
     [id |-> docs[i].id, content |-> docs[i].content,
      preview |-> Preview(docs[i].content), metadata |-> docs[i].metadata,
      score |-> docs[i].score]]

\* A rejection returned without the blocked flag
UnflaggedResult(v, q, m, routing) ==
  [answer |-> CannotProcess(v.reason), sources |-> << >>,
   query |-> OrElse(v.sanitized, q), mode |-> m, routing |-> routing,
   blocked |-> FALSE, reason |-> v.reason, warnings |-> Null]

\* The result returned when validateQuery rejects
BlockedResult(v, q, m, routing) ==
  [answer |-> CannotProcess(v.reason), sources |-> << >>,
   query |-> OrElse(v.sanitized, q), mode |-> m, routing |-> routing,
   blocked |-> TRUE, reason |-> v.reason, warnings |-> Null]

\* The response policies applied to the blocked message as well
FinalAnswerWithPolicies(a) ==
  IF ~hasGuardrails THEN PlainAnswer(Text(a))
  ELSE IF ~validateResponse(a).allowed
    THEN [prefix |-> "Response blocked: ",
          body |-> applyResponsePolicies(Text(EmptyStr), query),
          reason |-> validateResponse(a).reason]
    ELSE PlainAnswer(applyResponsePolicies(Text(validateResponse(a).sanitized), query))

\* The response policies applied against the query as the caller passed it
FinalAnswerForRawQuery(a) ==
  IF ~hasGuardrails THEN PlainAnswer(Text(a))
  ELSE IF ~validateResponse(a).allowed
    THEN ResponseBlocked(validateResponse(a).reason)
    ELSE PlainAnswer(applyResponsePolicies(Text(validateResponse(a).sanitized), rawQuery))

\* finalAnswer, from the answer of the backend
FinalAnswer(a) ==
  IF ~hasGuardrails THEN PlainAnswer(Text(a))
  ELSE IF ~validateResponse(a).allowed
    THEN ResponseBlocked(validateResponse(a).reason)
    ELSE PlainAnswer(applyResponsePolicies(Text(validateResponse(a).sanitized), query))

\* The guardrail calls made on the answer of the backend
ResponseEvents(a) ==
  IF ~hasGuardrails THEN << >>
  ELSE IF ~validateResponse(a).allowed THEN << "validateResponse" >>
  ELSE << "validateResponse", "applyResponsePolicies" >>

\* The result, were the document filter run again after generation
QueryResultRefiltered(a) ==
  [answer |-> FinalAnswer(a), sources |-> SourcesOf(FilterDocs(retrievedDocs)),
   query |-> OrElse(validation.sanitized, query), mode |-> mode,
   routing |-> routingInfo, blocked |-> FALSE, reason |-> NoReason,
   warnings |-> validation.warnings]

\* The result query() returns after generation
QueryResult(a) ==
  [answer |-> FinalAnswer(a), sources |-> SourcesOf(filteredDocs),
   query |-> OrElse(validation.sanitized, query), mode |-> mode,
   routing |-> routingInfo, blocked |-> FALSE, reason |-> NoReason,
   warnings |-> validation.warnings]

\* The result queryDirectLLM() returns
DirectResult(a) ==
  [answer |-> PlainAnswer(Text(a)), sources |-> << >>, query |-> query,
   mode |-> "llm", routing |-> [reason |-> "forced_llm"], blocked |-> FALSE,
   reason |-> NoReason, warnings |-> Null]

\* this.blockedTerms and this.sensitiveTopics of the engine's guardrails
TablesNow ==
  IF hasGuardrails
    THEN [blockedTerms |-> blockedTerms, sensitiveTopics |-> sensitiveTopics]
    ELSE Null

\* query() from the end of retrieval to the call of llm.generateResponse, or
\* to the blocked result: prompt and mode, validateQuery, the document filter.
Proceed(q, opts, m, retrieved, routing, ev) ==
  LET pm   == PromptAndMode(m, opts.systemPrompt, routing)
      docs == DocsAfterSwitch(m, opts.systemPrompt, retrieved)
      v    == QueryValidation(q, opts)
  IN  /\ retrievedDocs' = docs
      /\ routingInfo' = routing
      /\ systemPrompt' = pm.systemPrompt
      /\ mode' = pm.mode
      /\ validation' = v
      /\ tablesSeen' = [atCall |-> (IF tablesSeen = Null THEN TablesNow
                                                         ELSE tablesSeen.atCall),
                        atValidation |-> TablesNow]
      /\ requestCounts' = IF hasGuardrails
                            THEN validateQueryCounts(q, UserOf(opts))
                            ELSE requestCounts
      /\ IF ~v.allowed
           THEN /\ query' = q
                /\ filteredDocs' = << >>
                /\ llmArgs' = << >>
                /\ result' = BlockedResult(v, q, pm.mode, routing)
                /\ events' = ev \o << "validateQuery" >>
                /\ pc' = "done"
           ELSE /\ query' = (IF hasGuardrails THEN v.sanitized ELSE q)
                /\ filteredDocs' = FilterDocs(docs)
                /\ llmArgs' = << [query |-> query',
                                  context |-> GenerationContext(pm.mode, filteredDocs'),
                                  systemPrompt |-> pm.systemPrompt] >>
                /\ result' = Null
                /\ events' = ev
                     \o (IF hasGuardrails THEN << "validateQuery" >> ELSE << >>)
                     \o (IF hasGuardrails
                           THEN [i \in 1..Len(docs) |-> "validateDocument"]
                           ELSE << >>)
                     \o << "llm.generateResponse" >>
                /\ pc' = "generating"

Modes == { "undefined", "auto", "rag", "hybrid", "llm" }

OptionSets ==
  [mode : Modes, systemPrompt : { "undefined", "custom" }, topK : { 0, 1 },
   userId : { "undefined" }]

qPlain == Str(<< "h", "i" >>)

\* sanitizes to "law", a legal keyword that the query as typed does not
\* contain
qLaw == Str(<< " ", "l", "a", "'", "w" >>)

\* sanitizes to "bAd": the blocked term, in another case
qBlocked == Str(<< "b", "A", "'", "d" >>)

\* 2001 characters
qLong == Padded(<< "h", "i" >>, 1999)

Queries == { qPlain, qLaw, qBlocked, qLong }

\* The engine as constructed with a data source and a backend, with no
\* retrieval, refresh or stream under way
NothingUnderWay ==
  /\ similarityInput = Null /\ routeResult = Null
  /\ retrievePc = "idle" /\ adding = Null /\ cachedDocumentCount = 0
  /\ hasDataSource = TRUE /\ hasLlm = TRUE
  /\ lifecycle = [completed |-> "none", failed |-> "none"]
  /\ vocabulary = << >> /\ refreshPc = "idle" /\ buildQueue = << >>
  /\ emitted = << >> /\ stream = Null

\* The values of the request variables between two requests
IdleRequest ==
  /\ pc = "idle" /\ entry = "" /\ rawQuery = EmptyStr /\ query = EmptyStr
  /\ options = Null /\ retrievedDocs = << >> /\ routingInfo = Null
  /\ mode = "" /\ systemPrompt = "" /\ validation = Null
  /\ filteredDocs = << >> /\ llmArgs = << >> /\ answer = Null /\ result = Null
  /\ events = << >> /\ tablesSeen = Null

\* RAGEngine.initialize
Initialize ==
  /\ pc = "idle" /\ ~initialized
  /\ hasDataSource /\ hasLlm
  /\ vocabulary' = (IF embeddings THEN CorpusTexts ELSE vocabulary)
  /\ documentVectors' = (IF embeddings THEN buildVectorIndexWith(CorpusTexts)
                                         ELSE documentVectors)
  /\ initialized' = TRUE
  /\ lifecycle' = [lifecycle EXCEPT !.completed = "initialize"]
  /\ UNCHANGED << guardVars, hasGuardrails, embeddings, dsDocs, topK,
                  requestVars, retrieveVars, hasDataSource, hasLlm, refreshPc,
                  buildQueue, streamVars >>

\* this.initialized set at the start of initialize()
InitializedFromTheStart == TRUE

\* this.initialized after an initialize() that threw: the assignment of line
\* 653 is not reached
InitializedAfterThrow == initialized

\* Where initialize() may throw: the two checks of the collaborators, or an
\* await of a collaborator
InitializeFailures ==
  IF ~hasDataSource THEN { "Data source is required" }
  ELSE IF ~hasLlm THEN { "LLM is required" }
  ELSE { "dataSource.initialize", "llm.initialize" }
         \cup (IF embeddings THEN { "embeddings.initialize" } ELSE { })
         \cup (IF embeddings /\ Len(dsDocs) > 0 THEN { "embeddings.embed" } ELSE { })

\* initialize() throws.  When embeddings.embed throws in buildVectorIndex, the
\* documents before the failing one are in the index.
InitializeFails ==
  /\ pc = "idle"
  /\ \E cause \in InitializeFailures :
       IF cause = "embeddings.embed"
         THEN /\ vocabulary' = CorpusTexts
              /\ \E n \in 0..(Len(dsDocs) - 1) :
                   documentVectors' = IndexAfter(documentVectors, Take(dsDocs, n),
                                                 CorpusTexts)
         ELSE UNCHANGED << vocabulary, documentVectors >>
  /\ initialized' = InitializedAfterThrow
  /\ lifecycle' = [lifecycle EXCEPT !.failed = "initialize"]
  /\ UNCHANGED << guardVars, hasGuardrails, embeddings, dsDocs, topK,
                  requestVars, retrieveVars, hasDataSource, hasLlm, refreshPc,
                  buildQueue, streamVars >>

\* RAGEngine.close
Close ==
  /\ pc = "idle"
  /\ initialized' = FALSE
  /\ lifecycle' = [lifecycle EXCEPT !.completed = "close"]
  /\ UNCHANGED << guardVars, hasGuardrails, embeddings, dsDocs, documentVectors,
                  topK, requestVars, retrieveVars, hasDataSource, hasLlm,
                  refreshVars, streamVars >>

\* close() throws: await this.dataSource.close() threw, and the assignment
\* of line 1074 is not reached
CloseFails ==
  /\ pc = "idle"
  /\ hasDataSource
  /\ lifecycle' = [lifecycle EXCEPT !.failed = "close"]
  /\ UNCHANGED << guardVars, engineVars, requestVars, retrieveVars, hasDataSource,
                  hasLlm, refreshVars, streamVars >>

\* query(q, opts) and queryWithRAG(q, opts), up to the first await
QueryCall(q, opts, ent) ==
  /\ pc = "idle"
  /\ entry' = ent
  /\ rawQuery' = q
  /\ options' = opts
  /\ IF ~initialized
       THEN /\ pc' = "threw"
            /\ result' = NotInitializedError
            /\ UNCHANGED << query, retrievedDocs, routingInfo, mode, systemPrompt,
                            validation, filteredDocs, llmArgs, events, tablesSeen,
                            requestCounts >>
     ELSE IF ~RetrievalSkipped(RequestedMode(opts))
       THEN /\ pc' = "retrieving"
            /\ query' = q
            /\ mode' = RequestedMode(opts)
            /\ events' = retrieveEvents
            /\ tablesSeen' = [atCall |-> TablesNow, atValidation |-> Null]
            /\ UNCHANGED << retrievedDocs, routingInfo, systemPrompt, validation,
                            filteredDocs, llmArgs, result, requestCounts >>
       ELSE Proceed(q, opts, RequestedMode(opts), << >>, Null, << >>)
  /\ UNCHANGED << enabled, blockedTerms, sensitiveTopics, rateLimit, now, calls,
                  engineVars, answer, retrieveVars, restVars >>

\* await this.retrieve(query, topK) returns; query() runs on to its next await
RetrieveReturn ==
  /\ pc = "retrieving"
  /\ \E docs \in retrieve(TopKOf(options)) :
       Proceed(query, options, mode, docs, RoutingInfoOf(docs), events)
  /\ UNCHANGED << enabled, blockedTerms, sensitiveTopics, rateLimit, now, calls,
                  engineVars, entry, rawQuery, options, answer, retrieveVars, restVars >>

\* queryDirectLLM(q, opts), up to its await
DirectCall(q, opts) ==
  /\ pc = "idle"
  /\ entry' = "queryDirectLLM"
  /\ rawQuery' = q
  /\ options' = opts
  /\ IF ~initialized
       THEN /\ pc' = "threw"
            /\ result' = NotInitializedError
            /\ UNCHANGED << query, systemPrompt, llmArgs, events >>
       ELSE /\ pc' = "generating"
            /\ query' = q
            /\ systemPrompt' = (IF opts.systemPrompt # "undefined"
                                  THEN opts.systemPrompt ELSE "getDirectLLMPrompt")
            /\ llmArgs' = << [query |-> q, context |-> << >>,
                              systemPrompt |-> systemPrompt'] >>
            /\ events' = << "llm.generateResponse" >>
            /\ result' = Null
  /\ UNCHANGED << guardVars, engineVars, retrievedDocs, routingInfo, mode,
                  validation, filteredDocs, answer, tablesSeen, retrieveVars,
                  restVars >>

\* await this.llm.generateResponse(...) returns; the method runs to its end
GenerateReturn ==
  /\ pc = "generating"
  /\ \E a \in Answers :
       /\ answer' = a
       /\ IF entry = "queryDirectLLM"
            THEN /\ result' = DirectResult(a)
                 /\ events' = events
            ELSE /\ result' = QueryResult(a)
                 /\ events' = events \o ResponseEvents(a)
  /\ pc' = "done"
  /\ UNCHANGED << guardVars, engineVars, entry, rawQuery, query, options,
                  retrievedDocs, routingInfo, mode, systemPrompt, validation,
                  filteredDocs, llmArgs, tablesSeen, retrieveVars, restVars >>

\* The caller has the result (or the error); the next request may start
Return ==
  /\ pc \in { "done", "threw" }
  /\ pc' = "idle" /\ entry' = "" /\ rawQuery' = EmptyStr /\ query' = EmptyStr
  /\ options' = Null /\ retrievedDocs' = << >> /\ routingInfo' = Null
  /\ mode' = "" /\ systemPrompt' = "" /\ validation' = Null
  /\ filteredDocs' = << >> /\ llmArgs' = << >> /\ answer' = Null
  /\ result' = Null /\ events' = << >> /\ tablesSeen' = Null
  /\ emitted' = << >> /\ stream' = Null
  /\ UNCHANGED << guardVars, engineVars, retrieveVars, lifecycleVars, refreshVars >>

\* Time passes.  Date.now() is read by the rate limiter alone, so the clock
\* is left at rest when no rate limit is configured.
Tick ==
  /\ rateLimit # Null
  /\ now < MaxClock
  /\ now' = now + 1
  /\ UNCHANGED << enabled, blockedTerms, sensitiveTopics, rateLimit, requestCounts,
                  calls, engineVars, requestVars, retrieveVars, restVars >>

----------------------------------------------------------------------------
(* RAGEngine: queryStream *)

\* The backend stream yields at most this many chunks
MaxChunks == 2

cOk == Str(<< "o", "k" >>)

\* The chunks llm.generateStreamingResponse may yield
Chunks == { cOk, aKill }

\* The streams the backend may return: the chunks it yields, and whether it
\* throws after them instead of ending
BackendStreams ==
  { [chunks |-> c, pos |-> 0, fails |-> f, state |-> "open"] :
      c \in UNION { [1..n -> Chunks] : n \in 0..MaxChunks }, f \in BOOLEAN }

\* { type: 'sources', sources: retrievedDocs.map(...) }
SourcesEvent(docs) ==
  [type |-> "sources",
   sources |-> [i \in 1..Len(docs) |->
                  [id |-> docs[i].id, content |-> Preview(docs[i].content),
                   metadata |-> docs[i].metadata, score |-> docs[i].score]]]

\* { type: 'content', content: chunk }
ContentEvent(chunk) == [type |-> "content", content |-> chunk]

\* { type: 'done' }
DoneEvent == [type |-> "done"]

\* The error the backend stream threw
StreamError == [error |-> "generateStreamingResponse threw"]

\* queryStream, were it to validate the query as query() does
StreamCallGuarded(q, opts) ==
  /\ pc = "idle"
  /\ entry' = "queryStream"
  /\ rawQuery' = q
  /\ options' = opts
  /\ emitted' = << >>
  /\ stream' = Null
  /\ IF ~initialized
       THEN /\ pc' = "threw"
            /\ result' = NotInitializedError
            /\ UNCHANGED << query, events >>
     ELSE IF ~QueryValidation(q, opts).allowed
       THEN /\ pc' = "done"
            /\ query' = q
            /\ events' = << "validateQuery" >>
            /\ result' = Null
       ELSE /\ pc' = "stream retrieving"
            /\ query' = QueryValidation(q, opts).sanitized
            /\ events' = << "validateQuery" >> \o retrieveEvents
            /\ result' = Null
  /\ UNCHANGED << guardVars, engineVars, retrievedDocs, routingInfo, mode,
                  systemPrompt, validation, filteredDocs, llmArgs, answer,
                  tablesSeen, retrieveVars, lifecycleVars, refreshVars >>

\* queryStream(q, opts): the first next() of the generator, up to its await
StreamCall(q, opts) ==
  /\ pc = "idle"
  /\ entry' = "queryStream"
  /\ rawQuery' = q
  /\ options' = opts
  /\ emitted' = << >>
  /\ stream' = Null
  /\ IF ~initialized
       THEN /\ pc' = "threw"
            /\ result' = NotInitializedError
            /\ UNCHANGED << query, events >>
       ELSE /\ pc' = "stream retrieving"
            /\ query' = q
            /\ events' = retrieveEvents
            /\ result' = Null
  /\ UNCHANGED << guardVars, engineVars, retrievedDocs, routingInfo, mode,
                  systemPrompt, validation, filteredDocs, llmArgs, answer,
                  tablesSeen, retrieveVars, lifecycleVars, refreshVars >>

\* await this.retrieve(query, topK) returns; the generator yields the sources
StreamRetrieveReturn ==
  /\ pc = "stream retrieving"
  /\ \E docs \in retrieve(TopKOf(options)) :
       /\ retrievedDocs' = docs
       /\ emitted' = << SourcesEvent(docs) >>
  /\ events' = Append(events, "yield sources")
  /\ pc' = "stream sources"
  /\ UNCHANGED << guardVars, engineVars, entry, rawQuery, query, options,
                  routingInfo, mode, systemPrompt, validation, filteredDocs,
                  llmArgs, answer, result, tablesSeen, retrieveVars,
                  lifecycleVars, refreshVars, stream >>

\* The consumer asks for the next event: the generator calls
\* llm.generateStreamingResponse(query, retrievedDocs, options) and awaits
\* the first chunk
StreamStart ==
  /\ pc = "stream sources"
  /\ stream' \in BackendStreams
  /\ llmArgs' = << [query |-> query, context |-> retrievedDocs,
                    systemPrompt |-> options.systemPrompt] >>
  /\ events' = Append(events, "llm.generateStreamingResponse")
  /\ pc' = "streaming"
  /\ UNCHANGED << guardVars, engineVars, entry, rawQuery, query, options,
                  retrievedDocs, routingInfo, mode, systemPrompt, validation,
                  filteredDocs, answer, result, tablesSeen, retrieveVars,
                  lifecycleVars, refreshVars, emitted >>

\* The backend stream yields a chunk; the generator yields it on
StreamChunk ==
  /\ pc = "streaming"
  /\ stream.pos < Len(stream.chunks)
  /\ emitted' = Append(emitted, ContentEvent(stream.chunks[stream.pos + 1]))
  /\ stream' = [stream EXCEPT !.pos = @ + 1]
  /\ events' = Append(events, "yield content")
  /\ UNCHANGED << guardVars, engineVars, pc, entry, rawQuery, query, options,
                  retrievedDocs, routingInfo, mode, systemPrompt, validation,
                  filteredDocs, llmArgs, answer, result, tablesSeen, retrieveVars,
                  lifecycleVars, refreshVars >>

\* The backend stream ends; the generator yields done
StreamEnd ==
  /\ pc = "streaming"
  /\ stream.pos = Len(stream.chunks) /\ ~stream.fails
  /\ emitted' = Append(emitted, DoneEvent)
  /\ stream' = [stream EXCEPT !.state = "exhausted"]
  /\ events' = Append(events, "yield done")
  /\ pc' = "done"
  /\ UNCHANGED << guardVars, engineVars, entry, rawQuery, query, options,
                  retrievedDocs, routingInfo, mode, systemPrompt, validation,
                  filteredDocs, llmArgs, answer, result, tablesSeen, retrieveVars,
                  lifecycleVars, refreshVars >>

\* A generator that yields done from a finally block, also when the backend
\* stream throws
StreamThrowsAfterDone ==
  /\ pc = "streaming"
  /\ stream.pos = Len(stream.chunks) /\ stream.fails
  /\ stream' = [stream EXCEPT !.state = "threw"]
  /\ emitted' = Append(emitted, DoneEvent)
  /\ result' = StreamError
  /\ pc' = "threw"
  /\ UNCHANGED << guardVars, engineVars, entry, rawQuery, query, options,
                  retrievedDocs, routingInfo, mode, systemPrompt, validation,
                  filteredDocs, llmArgs, answer, events, tablesSeen, retrieveVars,
                  lifecycleVars, refreshVars >>

\* The backend stream throws; the error leaves the for await loop and the
\* generator
StreamThrows ==
  /\ pc = "streaming"
  /\ stream.pos = Len(stream.chunks) /\ stream.fails
  /\ stream' = [stream EXCEPT !.state = "threw"]
  /\ result' = StreamError
  /\ pc' = "threw"
  /\ UNCHANGED << guardVars, engineVars, entry, rawQuery, query, options,
                  retrievedDocs, routingInfo, mode, systemPrompt, validation,
                  filteredDocs, llmArgs, answer, events, tablesSeen, retrieveVars,
                  lifecycleVars, refreshVars, emitted >>

\* The consumer stops iterating after an event (a break in its for await
\* loop): the generator is returned at the yield it is suspended at
StreamAbandoned ==
  /\ \/ pc = "stream sources"
     \/ pc = "streaming" /\ stream.pos > 0
  /\ stream' = (IF stream = Null
                  THEN [chunks |-> << >>, pos |-> 0, fails |-> FALSE,
                        state |-> "not started"]
                  ELSE [stream EXCEPT !.state = "returned"])
  /\ pc' = "done"
  /\ UNCHANGED << guardVars, engineVars, entry, rawQuery, query, options,
                  retrievedDocs, routingInfo, mode, systemPrompt, validation,
                  filteredDocs, llmArgs, answer, result, events, tablesSeen,
                  retrieveVars, lifecycleVars, refreshVars, emitted >>

\* queryStream reads options.topK; the options go to the backend as they are
QueryStream ==
  \E q \in Queries, opts \in { o \in OptionSets : o.mode = "undefined" } :
    StreamCall(q, opts)

----------------------------------------------------------------------------
(* RAGEngine: the entry points *)

Query == \E q \in Queries, opts \in OptionSets : QueryCall(q, opts, "query")

\* queryWithRAG(q, opts) is query(q, {...opts, smartRouting: false}); query
\* reads no option smartRouting
QueryWithRAG ==
  \E q \in Queries, opts \in { o \in OptionSets : o.topK = 0 } :
    QueryCall(q, opts, "queryWithRAG")

\* queryDirectLLM reads options.systemPrompt (history and temperature are
\* handed on as they are)
QueryDirectLLM ==
  \E q \in Queries,
     opts \in { o \in OptionSets : o.topK = 0 /\ o.mode = "undefined" } :
    DirectCall(q, opts)

\* The engine as constructed: with or without guardrails, with or without
\* embeddings
Init ==
  /\ hasGuardrails \in BOOLEAN
  /\ enabled = TRUE
  /\ blockedTerms = << Str(<< "B", "a", "d" >>) >>
  /\ sensitiveTopics = << Str(<< "l", "a", "w" >>) >>
  /\ rateLimit \in (IF hasGuardrails
                      THEN { Null, [requests |-> 1, window |-> 1] }
                      ELSE { Null })
  /\ requestCounts = << >>
  /\ now = 0
  /\ calls = << >>
  /\ embeddings \in BOOLEAN
  /\ dsDocs = << d1, d2 >>
  /\ documentVectors = << >>
  /\ initialized = FALSE
  /\ topK = DefaultTopK
  /\ IdleRequest
  /\ retrieveK = 0
  /\ retrieveResult = << >>
  /\ NothingUnderWay

Next ==
  \/ Initialize
  \/ Query
  \/ QueryWithRAG
  \/ QueryDirectLLM
  \/ RetrieveReturn
  \/ GenerateReturn
  \/ Return
  \/ Tick

Spec == Init /\ [][Next]_vars

----------------------------------------------------------------------------
(* Guardrails called directly: histories of validateQuery calls *)

GuardQueries == { qPlain, qBlocked, qLong }

RateLimits ==
  { Null } \cup { [requests |-> n, window |-> 2] : n \in 0..2 }

\* this.guardrails.validateQuery(q, u) at time now; the call is logged
ValidateQueryCall(q, u) ==
  /\ Len(calls) < MaxCalls
  /\ requestCounts' = validateQueryCounts(q, u)
  /\ calls' = Append(calls, [user |-> u, time |-> now, query |-> q,
                             result |-> validateQuery(q, u)])
  /\ UNCHANGED << enabled, blockedTerms, sensitiveTopics, rateLimit, now,
                  engineVars, requestVars, retrieveVars, restVars >>

ValidateQueryCalls == \E q \in GuardQueries, u \in Users : ValidateQueryCall(q, u)

TickGuard ==
  /\ now < MaxTime
  /\ now' = now + 1
  /\ UNCHANGED << enabled, blockedTerms, sensitiveTopics, rateLimit, requestCounts,
                  calls, engineVars, requestVars, retrieveVars, restVars >>

InitGuard ==
  /\ hasGuardrails = TRUE
  /\ enabled \in BOOLEAN
  /\ blockedTerms = << Str(<< "B", "a", "d" >>) >>
  /\ sensitiveTopics = << Str(<< "l", "a", "w" >>) >>
  /\ rateLimit \in RateLimits
  /\ requestCounts = << >>
  /\ now = 0
  /\ calls = << >>
  /\ embeddings = FALSE
  /\ dsDocs = << >>
  /\ documentVectors = << >>
  /\ initialized = FALSE
  /\ topK = DefaultTopK
  /\ IdleRequest
  /\ retrieveK = 0
  /\ retrieveResult = << >>
  /\ NothingUnderWay

NextGuard ==
  \/ ValidateQueryCalls
  \/ TickGuard

SpecGuard == InitGuard /\ [][NextGuard]_vars

----------------------------------------------------------------------------
(* retrieve called directly *)

\* retrieve(query, k) is called with k in 1..MaxK
MaxK == 3

Corpora == { << >>, << d1 >>, << d1, d2 >>, << d1, d2, d3 >> }

\* await ragEngine.retrieve(query, k), from call to return
RetrieveCall(k) ==
  /\ \E r \in retrieveTraced(k) :
       /\ retrieveK' = k
       /\ retrieveResult' = r.result
       /\ similarityInput' = r.input
  /\ routeResult' = Null
  /\ UNCHANGED << guardVars, engineVars, requestVars, pendingVars, restVars >>

RetrieveCalls == \E k \in 1..MaxK : RetrieveCall(k)

\* await ragEngine.routeQuery(query), from call to return: the retrieval it
\* makes with this.topK, and its decision
RouteQueryCall ==
  /\ \E r \in retrieveTraced(topK) :
       /\ retrieveK' = topK
       /\ retrieveResult' = r.result
       /\ routeResult' = routeQuery(r.result)
       /\ similarityInput' = r.input
  /\ UNCHANGED << guardVars, engineVars, requestVars, pendingVars, restVars >>

InitRetrieve ==
  /\ hasGuardrails = FALSE
  /\ enabled = TRUE
  /\ blockedTerms = << >>
  /\ sensitiveTopics = << >>
  /\ rateLimit = Null
  /\ requestCounts = << >>
  /\ now = 0
  /\ calls = << >>
  /\ embeddings \in BOOLEAN
  /\ dsDocs \in Corpora
  /\ documentVectors = << >>
  /\ initialized = FALSE
  /\ topK = DefaultTopK
  /\ IdleRequest
  /\ retrieveK = 0
  /\ retrieveResult = << >>
  /\ NothingUnderWay

NextRetrieve ==
  \/ Initialize
  \/ RetrieveCalls
  \/ RouteQueryCall

SpecRetrieve == InitRetrieve /\ [][NextRetrieve]_vars

----------------------------------------------------------------------------
(* The life cycle: initialize, close and the entry points *)

\* options = {}
NoOptions ==
  [mode |-> "undefined", systemPrompt |-> "undefined", topK |-> 0,
   userId |-> "undefined"]

\* The three entry points, called with a plain query and no options
PlainQuery == QueryCall(qPlain, NoOptions, "query")

PlainQueryDirectLLM == DirectCall(qPlain, NoOptions)

PlainQueryStream == StreamCall(qPlain, NoOptions)

InitLifecycle ==
  /\ hasGuardrails = FALSE
  /\ enabled = TRUE
  /\ blockedTerms = << >>
  /\ sensitiveTopics = << >>
  /\ rateLimit = Null
  /\ requestCounts = << >>
  /\ now = 0
  /\ calls = << >>
  /\ embeddings \in BOOLEAN
  /\ dsDocs = << d1, d2 >>
  /\ documentVectors = << >>
  /\ initialized = FALSE
  /\ topK = DefaultTopK
  /\ IdleRequest
  /\ retrieveK = 0
  /\ retrieveResult = << >>
  /\ similarityInput = Null /\ routeResult = Null
  /\ retrievePc = "idle" /\ adding = Null /\ cachedDocumentCount = 0
  /\ hasDataSource \in BOOLEAN /\ hasLlm \in BOOLEAN
  /\ lifecycle = [completed |-> "none", failed |-> "none"]
  /\ vocabulary = << >> /\ refreshPc = "idle" /\ buildQueue = << >>
  /\ emitted = << >> /\ stream = Null

NextLifecycle ==
  \/ Initialize
  \/ InitializeFails
  \/ Close
  \/ CloseFails
  \/ PlainQuery
  \/ PlainQueryDirectLLM
  \/ PlainQueryStream
  \/ RetrieveReturn
  \/ GenerateReturn
  \/ StreamRetrieveReturn
  \/ StreamStart
  \/ StreamChunk
  \/ StreamEnd
  \/ StreamThrows
  \/ StreamAbandoned
  \/ Return

SpecLifecycle == InitLifecycle /\ [][NextLifecycle]_vars

----------------------------------------------------------------------------
(* queryStream and its consumer *)

InitStream ==
  /\ hasGuardrails \in BOOLEAN
  /\ enabled = TRUE
  /\ blockedTerms = << Str(<< "B", "a", "d" >>) >>
  /\ sensitiveTopics = << >>
  /\ rateLimit \in (IF hasGuardrails
                      THEN { Null, [requests |-> 0, window |-> 1] }
                      ELSE { Null })
  /\ requestCounts = << >>
  /\ now = 0
  /\ calls = << >>
  /\ embeddings \in BOOLEAN
  /\ dsDocs = << d2, d3 >>
  /\ documentVectors = << >>
  /\ initialized = FALSE
  /\ topK = DefaultTopK
  /\ IdleRequest
  /\ retrieveK = 0
  /\ retrieveResult = << >>
  /\ NothingUnderWay

NextStream ==
  \/ Initialize
  \/ QueryStream
  \/ StreamRetrieveReturn
  \/ StreamStart
  \/ StreamChunk
  \/ StreamEnd
  \/ StreamThrows
  \/ StreamAbandoned
  \/ Return

SpecStream == InitStream /\ [][NextStream]_vars

----------------------------------------------------------------------------
(* queryStream called with a mode *)

\* queryStream(q, { mode }) for each mode a caller may give
StreamWithMode ==
  \E m \in Modes : StreamCall(qPlain, [NoOptions EXCEPT !.mode = m])

NextStreamModes ==
  \/ Initialize
  \/ StreamWithMode
  \/ StreamRetrieveReturn
  \/ StreamStart
  \/ StreamChunk
  \/ StreamEnd
  \/ StreamThrows
  \/ StreamAbandoned
  \/ Return

SpecStreamModes == InitStream /\ [][NextStreamModes]_vars

----------------------------------------------------------------------------
(* refresh, with retrievals running while it is suspended *)

\* What the data source may hold when loadDocuments reads it
RefreshCorpora == { << d1 >>, << d1, d2 >>, << d1, d2, d3 >> }

\* refresh() is called, up to await this.dataSource.loadDocuments()
RefreshCall ==
  /\ refreshPc \in { "idle", "done" }
  /\ initialized
  /\ refreshPc' = "loading"
  /\ UNCHANGED << guardVars, engineVars, requestVars, retrieveVars, lifecycleVars,
                  vocabulary, buildQueue, streamVars >>

\* loadDocuments returns: the data source holds what it has read.  With
\* embeddings, refresh() calls buildVocabulary with the texts and awaits it.
RefreshLoaded ==
  /\ refreshPc = "loading"
  /\ dsDocs' \in RefreshCorpora
  /\ refreshPc' = (IF embeddings THEN "vocabulary" ELSE "done")
  /\ UNCHANGED << guardVars, hasGuardrails, embeddings, documentVectors,
                  initialized, topK, requestVars, retrieveVars, lifecycleVars,
                  vocabulary, buildQueue, streamVars >>

\* buildVocabulary returns; buildVectorIndex reads the documents and awaits
\* the vector of the first one
VocabularyBuilt ==
  /\ refreshPc = "vocabulary"
  /\ vocabulary' = CorpusTexts
  /\ buildQueue' = dsDocs
  /\ refreshPc' = (IF Len(dsDocs) = 0 THEN "done" ELSE "indexing")
  /\ UNCHANGED << guardVars, engineVars, requestVars, retrieveVars, lifecycleVars,
                  streamVars >>

\* A new index put in place of the old one in one assignment
IndexAfterSwap ==
  IndexAfter(<< >>, dsDocs, vocabulary)

\* this.documentVectors after one round of the loop of buildVectorIndex:
\* the entry of the document is set, the other entries are as they were
IndexAfterStep ==
  SetEntry(documentVectors, Head(buildQueue), embed(Head(buildQueue).content))

\* embed returns for a document and its entry is set; after the last
\* document buildVectorIndex and refresh() return
IndexStep ==
  /\ refreshPc = "indexing"
  /\ documentVectors' = IndexAfterStep
  /\ buildQueue' = Tail(buildQueue)
  /\ refreshPc' = (IF Len(buildQueue) = 1 THEN "done" ELSE "indexing")
  /\ UNCHANGED << guardVars, hasGuardrails, embeddings, dsDocs, initialized, topK,
                  requestVars, retrieveVars, lifecycleVars, vocabulary, streamVars >>

\* A retrieval of one document, at any moment
RetrieveOne == RetrieveCall(1)

InitRefresh ==
  /\ hasGuardrails = FALSE
  /\ enabled = TRUE
  /\ blockedTerms = << >>
  /\ sensitiveTopics = << >>
  /\ rateLimit = Null
  /\ requestCounts = << >>
  /\ now = 0
  /\ calls = << >>
  /\ embeddings \in BOOLEAN
  /\ dsDocs \in RefreshCorpora
  /\ documentVectors = << >>
  /\ initialized = FALSE
  /\ topK = DefaultTopK
  /\ IdleRequest
  /\ retrieveK = 0
  /\ retrieveResult = << >>
  /\ NothingUnderWay

NextRefresh ==
  \/ Initialize
  \/ RefreshCall
  \/ RefreshLoaded
  \/ VocabularyBuilt
  \/ IndexStep
  \/ RetrieveOne

SpecRefresh == InitRefresh /\ [][NextRefresh]_vars

----------------------------------------------------------------------------
(* updatePolicies, with requests in flight *)

\* The most entries the two tables hold together
MaxTerms == 4

\* newPolicies: the fields given, and their values
NewPolicies ==
  { [given |-> { "blockedTerms" }, blockedTerms |-> << Str(<< "o", "k" >>) >>,
     sensitiveTopics |-> << >>, rateLimit |-> Null],
    [given |-> { "blockedTerms" }, blockedTerms |-> << Str(<< "h", "i" >>) >>,
     sensitiveTopics |-> << >>, rateLimit |-> Null],
    [given |-> { "sensitiveTopics" }, blockedTerms |-> << >>,
     sensitiveTopics |-> << Str(<< "h", "i" >>) >>, rateLimit |-> Null],
    [given |-> { "rateLimit" }, blockedTerms |-> << >>,
     sensitiveTopics |-> << >>, rateLimit |-> [requests |-> 2, window |-> 1]] }

\* guardrails.updatePolicies(newPolicies), whatever the requests are doing
UpdatePolicies ==
  \E newPolicies \in NewPolicies :
    /\ hasGuardrails
    /\ Len(blockedTerms) + Len(sensitiveTopics)
         + Len(newPolicies.blockedTerms) + Len(newPolicies.sensitiveTopics) <= MaxTerms
    /\ blockedTerms' = (IF "blockedTerms" \in newPolicies.given
                          THEN blockedTerms \o newPolicies.blockedTerms
                          ELSE blockedTerms)
    /\ sensitiveTopics' = (IF "sensitiveTopics" \in newPolicies.given
                             THEN sensitiveTopics \o newPolicies.sensitiveTopics
                             ELSE sensitiveTopics)
    /\ rateLimit' = (IF "rateLimit" \in newPolicies.given
                       THEN newPolicies.rateLimit ELSE rateLimit)
    /\ UNCHANGED << enabled, requestCounts, now, calls, engineVars, requestVars,
                    retrieveVars, restVars >>

\* query(q) with no options
PolicyQuery == \E q \in { qPlain, qBlocked } : QueryCall(q, NoOptions, "query")

InitPolicies ==
  /\ hasGuardrails = TRUE
  /\ enabled = TRUE
  /\ blockedTerms = << Str(<< "B", "a", "d" >>) >>
  /\ sensitiveTopics = << Str(<< "l", "a", "w" >>) >>
  /\ rateLimit = Null
  /\ requestCounts = << >>
  /\ now = 0
  /\ calls = << >>
  /\ embeddings = FALSE
  /\ dsDocs = << d1, d2 >>
  /\ documentVectors = << >>
  /\ initialized = FALSE
  /\ topK = DefaultTopK
  /\ IdleRequest
  /\ retrieveK = 0
  /\ retrieveResult = << >>
  /\ NothingUnderWay

NextPolicies ==
  \/ Initialize
  \/ PolicyQuery
  \/ RetrieveReturn
  \/ GenerateReturn
  \/ Return
  \/ UpdatePolicies

SpecPolicies == InitPolicies /\ [][NextPolicies]_vars

----------------------------------------------------------------------------
(* query() when a collaborator throws *)

\* The error a collaborator threw
Thrown(by) == [error |-> "thrown by collaborator", by |-> by]

\* The retrieval error swallowed: query() goes on without documents
RetrieveThrowsSuppressed ==
  /\ pc = "retrieving"
  /\ Proceed(query, options, mode, << >>, RoutingInfoOf(<< >>), events \o << "throw" >>)
  /\ UNCHANGED << enabled, blockedTerms, sensitiveTopics, rateLimit, now, calls,
                  engineVars, entry, rawQuery, options, answer, retrieveVars, restVars >>

\* await this.retrieve(query, topK) rejects: embeddings.embed, findSimilar or
\* dataSource.search threw.  query() has no handler, so its promise rejects.
RetrieveThrows ==
  /\ pc = "retrieving"
  /\ result' = Thrown(events[Len(events)])
  /\ events' = events \o << "throw" >>
  /\ pc' = "threw"
  /\ UNCHANGED << guardVars, engineVars, entry, rawQuery, query, options,
                  retrievedDocs, routingInfo, mode, systemPrompt, validation,
                  filteredDocs, llmArgs, answer, tablesSeen, retrieveVars, restVars >>

\* await this.llm.generateResponse(...) rejects; the promise of query()
\* (or of queryDirectLLM()) rejects with the same error
GenerateThrows ==
  /\ pc = "generating"
  /\ result' = Thrown("llm.generateResponse")
  /\ events' = events \o << "throw" >>
  /\ pc' = "threw"
  /\ UNCHANGED << guardVars, engineVars, entry, rawQuery, query, options,
                  retrievedDocs, routingInfo, mode, systemPrompt, validation,
                  filteredDocs, llmArgs, answer, tablesSeen, retrieveVars, restVars >>

\* query(q, { mode }) with the default mode or without retrieval
FailingQuery ==
  \E q \in { qPlain, qBlocked }, m \in { "undefined", "llm" } :
    QueryCall(q, [NoOptions EXCEPT !.mode = m], "query")

InitFailures ==
  /\ hasGuardrails \in BOOLEAN
  /\ enabled = TRUE
  /\ blockedTerms = << Str(<< "B", "a", "d" >>) >>
  /\ sensitiveTopics = << Str(<< "l", "a", "w" >>) >>
  /\ rateLimit = Null
  /\ requestCounts = << >>
  /\ now = 0
  /\ calls = << >>
  /\ embeddings \in BOOLEAN
  /\ dsDocs = << d1, d2 >>
  /\ documentVectors = << >>
  /\ initialized = FALSE
  /\ topK = DefaultTopK
  /\ IdleRequest
  /\ retrieveK = 0
  /\ retrieveResult = << >>
  /\ NothingUnderWay

NextFailures ==
  \/ Initialize
  \/ FailingQuery
  \/ RetrieveReturn
  \/ RetrieveThrows
  \/ GenerateReturn
  \/ GenerateThrows
  \/ Return

SpecFailures == InitFailures /\ [][NextFailures]_vars

----------------------------------------------------------------------------
(* Guardrails built with and without a blockedTerms configuration *)

qMalware == Str(<< "a", " ", "M", "a", "l", "w", "a", "r", "e" >>)

DefaultsQueries == { qPlain, qBlocked, qMalware }

\* config.blockedTerms || []: the list of the configuration, or none
ConfiguredBlockedTerms == { << >>, << Str(<< "B", "a", "d" >>) >> }

ValidateWithDefaults == \E q \in DefaultsQueries, u \in Users : ValidateQueryCall(q, u)

InitDefaults ==
  /\ hasGuardrails = TRUE
  /\ enabled = TRUE
  /\ blockedTerms \in ConfiguredBlockedTerms
  /\ sensitiveTopics = << >>
  /\ rateLimit = Null
  /\ requestCounts = << >>
  /\ now = 0
  /\ calls = << >>
  /\ embeddings = FALSE
  /\ dsDocs = << >>
  /\ documentVectors = << >>
  /\ initialized = FALSE
  /\ topK = DefaultTopK
  /\ IdleRequest
  /\ retrieveK = 0
  /\ retrieveResult = << >>
  /\ NothingUnderWay

NextDefaults == ValidateWithDefaults

SpecDefaults == InitDefaults /\ [][NextDefaults]_vars

----------------------------------------------------------------------------
(* Guardrails.sanitizeInput called directly, and on its own result *)

\* The longest text given to sanitizeInput
MaxInputLen == 5

\* The characters of the texts: the letters of an event handler, a quote the
\* sanitizer removes, the sign that ends a handler
InputChars == { "o", "n", "'", "=" }

InputTexts ==
  { Str(b) : b \in UNION { [1..n -> InputChars] : n \in 0..MaxInputLen } }

\* guardrails.sanitizeInput(t); the call is logged
SanitizeInputCall ==
  \E t \in InputTexts :
    /\ Len(calls) = 0
    /\ calls' = << [method |-> "sanitizeInput", text |-> t,
                    result |-> sanitizeInput(t)] >>
    /\ UNCHANGED << enabled, blockedTerms, sensitiveTopics, rateLimit,
                    requestCounts, now, engineVars, requestVars, retrieveVars,
                    restVars >>

\* guardrails.sanitizeInput(s) for the result s of the first call
SanitizeAgain ==
  /\ Len(calls) = 1
  /\ calls' = Append(calls, [method |-> "sanitizeInput", text |-> calls[1].result,
                             result |-> sanitizeInput(calls[1].result)])
  /\ UNCHANGED << enabled, blockedTerms, sensitiveTopics, rateLimit,
                  requestCounts, now, engineVars, requestVars, retrieveVars,
                  restVars >>

\* Guardrails built without blockedTerms and sensitiveTopics
NoTables == blockedTerms = << >> /\ sensitiveTopics = << >>

\* Guardrails built with a blocked term and a sensitive topic
SmallTables ==
  /\ blockedTerms = << Str(<< "B", "a", "d" >>) >>
  /\ sensitiveTopics = << Str(<< "l", "a", "w" >>) >>

\* A Guardrails object by itself, no engine at work
InitPlainGuardrails ==
  /\ hasGuardrails = TRUE
  /\ requestCounts = << >>
  /\ now = 0
  /\ calls = << >>
  /\ embeddings = FALSE
  /\ dsDocs = << >>
  /\ documentVectors = << >>
  /\ initialized = FALSE
  /\ topK = DefaultTopK
  /\ IdleRequest
  /\ retrieveK = 0
  /\ retrieveResult = << >>
  /\ NothingUnderWay

InitSanitize == InitPlainGuardrails /\ NoTables /\ enabled = TRUE /\ rateLimit = Null

NextSanitize ==
  \/ SanitizeInputCall
  \/ SanitizeAgain

SpecSanitize == InitSanitize /\ [][NextSanitize]_vars

----------------------------------------------------------------------------
(* The rate limiter: validateQuery, resetRateLimit and clearRateLimits *)

\* this.requestCounts.delete(userId); the call is logged
ResetRateLimit(userId) ==
  /\ Len(calls) < MaxCalls
  /\ requestCounts' = [u \in DOMAIN requestCounts \ { userId } |-> requestCounts[u]]
  /\ calls' = Append(calls, [reset |-> "resetRateLimit", user |-> userId, time |-> now])
  /\ UNCHANGED << enabled, blockedTerms, sensitiveTopics, rateLimit, now,
                  engineVars, requestVars, retrieveVars, restVars >>

ResetRateLimits == \E u \in Users : ResetRateLimit(u)

\* this.requestCounts.clear(); the call is logged
ClearRateLimits ==
  /\ Len(calls) < MaxCalls
  /\ requestCounts' = << >>
  /\ calls' = Append(calls, [reset |-> "clearRateLimits", user |-> "", time |-> now])
  /\ UNCHANGED << enabled, blockedTerms, sensitiveTopics, rateLimit, now,
                  engineVars, requestVars, retrieveVars, restVars >>

RateQueries == { qPlain, qLong }

ValidateForRate == \E q \in RateQueries, u \in Users : ValidateQueryCall(q, u)

InitRate ==
  /\ InitPlainGuardrails
  /\ NoTables
  /\ enabled = TRUE
  /\ rateLimit \in { [requests |-> n, window |-> 2] : n \in 1..2 }

NextRate ==
  \/ ValidateForRate
  \/ ResetRateLimits
  \/ ClearRateLimits
  \/ TickGuard

SpecRate == InitRate /\ [][NextRate]_vars

----------------------------------------------------------------------------
(* Guardrails switched off: validateQuery, validateResponse, validateDocument *)

\* this.guardrails.validateResponse(r); the call is logged
ValidateResponseCall(r) ==
  /\ Len(calls) < MaxCalls
  /\ calls' = Append(calls, [response |-> r, result |-> validateResponse(r)])
  /\ UNCHANGED << enabled, blockedTerms, sensitiveTopics, rateLimit,
                  requestCounts, now, engineVars, requestVars, retrieveVars,
                  restVars >>

\* this.guardrails.validateDocument(c); the call is logged
ValidateDocumentCall(c) ==
  /\ Len(calls) < MaxCalls
  /\ calls' = Append(calls, [content |-> c, result |-> validateDocument(c)])
  /\ UNCHANGED << enabled, blockedTerms, sensitiveTopics, rateLimit,
                  requestCounts, now, engineVars, requestVars, retrieveVars,
                  restVars >>

ValidateAnswers == \E r \in Answers : ValidateResponseCall(r)

ValidateDocuments == \E d \in { d1, d2, d3 } : ValidateDocumentCall(d.content)

\* Guardrails with enabled true or false, a blocked term, and with or
\* without a rate limit that lets no request through
InitSwitch ==
  /\ InitPlainGuardrails
  /\ SmallTables
  /\ enabled \in BOOLEAN
  /\ rateLimit \in { Null, [requests |-> 0, window |-> 1] }

NextSwitch ==
  \/ ValidateQueryCalls
  \/ ValidateAnswers
  \/ ValidateDocuments

SpecSwitch == InitSwitch /\ [][NextSwitch]_vars

----------------------------------------------------------------------------
(* validateResponse on responses with explicit and violence terms *)

\* Responses with an explicit term, short and long; with a violence term, of
\* 499 and of 500 characters; of 497 characters that the sanitizer makes 500;
\* with both kinds of terms; and over the length limit
ModerationResponses ==
  { aOk,
    Str(<< "N", "S", "F", "W" >>),
    Padded(<< "n", "s", "f", "w" >>, 600),
    Padded(<< "K", "i", "l", "l" >>, 495),
    Padded(<< "k", "i", "l", "l" >>, 496),
    Padded(<< "<", "k", "i", "l", "l" >>, 492),
    Padded(<< "k", "i", "l", "l", " ", "n", "s", "f", "w" >>, 600),
    Padded(<< "n", "s", "f", "w" >>, 9997) }

ValidateModerated == \E r \in ModerationResponses : ValidateResponseCall(r)

InitModeration ==
  /\ InitPlainGuardrails
  /\ NoTables
  /\ enabled = TRUE
  /\ rateLimit = Null

NextModeration == ValidateModerated

SpecModeration == InitModeration /\ [][NextModeration]_vars


----------------------------------------------------------------------------
(* query() under a rate limit, with a backend that may throw *)

\* query(q, { mode, userId })
RateLimitedQuery ==
  \E q \in { qPlain, qBlocked, qLong }, m \in { "undefined", "llm" },
     u \in { "undefined", "u2" } :
    QueryCall(q, [NoOptions EXCEPT !.mode = m, !.userId = u], "query")

InitFrame ==
  /\ InitPlainGuardrails
  /\ enabled = TRUE
  /\ blockedTerms = << Str(<< "B", "a", "d" >>) >>
  /\ sensitiveTopics = << >>
  /\ rateLimit = [requests |-> 1, window |-> 1]

NextFrame ==
  \/ Initialize
  \/ RateLimitedQuery
  \/ RetrieveReturn
  \/ GenerateReturn
  \/ GenerateThrows
  \/ Return
  \/ Tick

SpecFrame == InitFrame /\ [][NextFrame]_vars


----------------------------------------------------------------------------
(* addDocument and retrieveByVector, with refresh() under way *)

\* The ids the data source makes up for the documents that bring none:
\* `doc_${Date.now()}_${Math.random().toString(36).substr(2, 9)}`
GeneratedIds == { "doc_1", "doc_2" }

IdsOf(docs) == { docs[i].id : i \in 1..Len(docs) }

\* A document that brings no id
dNoId == Doc("", Str(<< "o", "k" >>))

AddableDocuments == { d3, dNoId }

\* document.id || document[this.idField] || `doc_...`: the id the document
\* brings, or one that no document has yet
IdsFor(document) ==
  IF document.id # "" THEN { document.id }
  ELSE GeneratedIds \ (IdsOf(dsDocs) \cup DOMAIN documentVectors)

\* client.index({ index, id, body }): the document of that id is created, or
\* replaced where it exists
IndexDocument(docs, doc) ==
  IF doc.id \in IdsOf(docs)
    THEN [i \in 1..Len(docs) |-> IF docs[i].id = doc.id THEN doc ELSE docs[i]]
    ELSE Append(docs, doc)

\* The index entry, were it { ...document, vector }
AddedEntrySpread(id, document, vector) ==
  [id |-> document.id, content |-> document.content,
   metadata |-> document.metadata, vector |-> vector]

\* { id, content: document.content, metadata: document.metadata || {}, vector }
AddedEntry(id, document, vector) ==
  [id |-> id, content |-> document.content, metadata |-> document.metadata,
   vector |-> vector]

\* addDocument(document) is called, up to await this.dataSource.addDocument
AddDocumentCall(document) ==
  /\ adding = Null
  /\ Len(calls) < MaxCalls
  /\ adding' = [document |-> document, id |-> "", stage |-> "dataSource.addDocument"]
  /\ UNCHANGED << guardVars, engineVars, requestVars, retrieveK, retrieveResult,
                  similarityInput, routeResult, retrievePc, cachedDocumentCount,
                  restVars >>

AddDocumentCalls == \E document \in AddableDocuments : AddDocumentCall(document)

\* The call of addDocument that ends is logged with its outcome
AddDocumentEnds(id, outcome, by) ==
  /\ adding' = Null
  /\ calls' = Append(calls, [addDocument |-> adding.document, id |-> id,
                             outcome |-> outcome, by |-> by])

\* dataSource.addDocument returns the id: the document is in the data source.
\* With embeddings, addDocument awaits the vector; without, it returns.
AddDocumentStored ==
  /\ adding # Null /\ adding.stage = "dataSource.addDocument"
  /\ \E id \in IdsFor(adding.document) :
       /\ dsDocs' = IndexDocument(dsDocs, [adding.document EXCEPT !.id = id])
       /\ IF embeddings
            THEN /\ adding' = [adding EXCEPT !.id = id, !.stage = "embeddings.embed"]
                 /\ calls' = calls
            ELSE AddDocumentEnds(id, "returned", "")
  /\ cachedDocumentCount' = cachedDocumentCount + 1
  /\ UNCHANGED << enabled, blockedTerms, sensitiveTopics, rateLimit, requestCounts,
                  now, hasGuardrails, embeddings, documentVectors, initialized,
                  topK, requestVars, retrieveK, retrieveResult, similarityInput,
                  routeResult, retrievePc, restVars >>

\* dataSource.addDocument rejects: addDocument throws before anything is stored
AddDocumentStoreThrows ==
  /\ adding # Null /\ adding.stage = "dataSource.addDocument"
  /\ AddDocumentEnds("", "threw", "dataSource.addDocument")
  /\ UNCHANGED << enabled, blockedTerms, sensitiveTopics, rateLimit, requestCounts,
                  now, engineVars, requestVars, retrieveK, retrieveResult,
                  similarityInput, routeResult, retrievePc, cachedDocumentCount,
                  restVars >>

\* embeddings.embed returns: the entry is set and addDocument returns the id
AddDocumentIndexed ==
  /\ adding # Null /\ adding.stage = "embeddings.embed"
  /\ documentVectors' =
       (adding.id :> AddedEntry(adding.id, adding.document,
                                embed(adding.document.content)))
         @@ documentVectors
  /\ AddDocumentEnds(adding.id, "returned", "")
  /\ UNCHANGED << enabled, blockedTerms, sensitiveTopics, rateLimit, requestCounts,
                  now, hasGuardrails, embeddings, dsDocs, initialized, topK,
                  requestVars, retrieveK, retrieveResult, similarityInput,
                  routeResult, retrievePc, cachedDocumentCount, restVars >>

\* embeddings.embed rejects: addDocument throws, after the data source has
\* stored the document
AddDocumentEmbedThrows ==
  /\ adding # Null /\ adding.stage = "embeddings.embed"
  /\ AddDocumentEnds(adding.id, "threw", "embeddings.embed")
  /\ UNCHANGED << enabled, blockedTerms, sensitiveTopics, rateLimit, requestCounts,
                  now, engineVars, requestVars, retrieveK, retrieveResult,
                  similarityInput, routeResult, retrievePc, cachedDocumentCount,
                  restVars >>

\* retrieve(query, k) takes the vector path: retrieveByVector runs up to
\* await this.embeddings.embed(query)
RetrieveByVectorCall(k) ==
  /\ retrievePc = "idle"
  /\ UsesVectorIndex
  /\ retrievePc' = "embedding"
  /\ retrieveK' = k
  /\ UNCHANGED << guardVars, engineVars, requestVars, retrieveResult,
                  similarityInput, routeResult, adding, cachedDocumentCount,
                  restVars >>

\* The id fields of Array.from(this.documentVectors.values()): what
\* findSimilar has to return ids from
SnapshotIds == { documentVectors[key].id : key \in DOMAIN documentVectors }

\* this.documentVectors.get(id) is an entry, for every id of the similarities
Resolve(similarities) ==
  \A i \in 1..Len(similarities) : similarities[i].id \in DOMAIN documentVectors

\* embed(query) returns: retrieveByVector runs to its end without another
\* await, from the snapshot of the index through findSimilar to the lookups
\* (a lookup that finds no entry makes doc.id throw: no result)
RetrieveByVectorResumes ==
  /\ retrievePc = "embedding"
  /\ \E s \in findSimilar(SnapshotIds, CandidateLimit(retrieveK)) :
       /\ similarityInput' = [documents |-> SimilarityDocuments.documents,
                              limit |-> CandidateLimit(retrieveK),
                              similarities |-> s]
       /\ retrieveResult' = (IF Resolve(s) THEN retrieveByVector(s, retrieveK)
                                           ELSE << >>)
  /\ routeResult' = Null
  /\ retrievePc' = "idle"
  /\ UNCHANGED << guardVars, engineVars, requestVars, retrieveK, adding,
                  cachedDocumentCount, restVars >>

InitIndex ==
  /\ hasGuardrails = FALSE
  /\ enabled = TRUE
  /\ blockedTerms = << >>
  /\ sensitiveTopics = << >>
  /\ rateLimit = Null
  /\ requestCounts = << >>
  /\ now = 0
  /\ calls = << >>
  /\ embeddings \in BOOLEAN
  /\ dsDocs \in { << d1 >>, << d1, d2 >> }
  /\ documentVectors = << >>
  /\ initialized = FALSE
  /\ topK = DefaultTopK
  /\ IdleRequest
  /\ retrieveK = 0
  /\ retrieveResult = << >>
  /\ NothingUnderWay

NextAdd ==
  \/ Initialize
  \/ AddDocumentCalls
  \/ AddDocumentStored
  \/ AddDocumentStoreThrows
  \/ AddDocumentIndexed
  \/ AddDocumentEmbedThrows

SpecAdd == InitIndex /\ [][NextAdd]_vars

\* One call of each of refresh(), addDocument() and retrieve(query, 1), at
\* any moment after initialize()
RefreshOnce == refreshPc = "idle" /\ RefreshCall

AddDocumentOnce == Len(calls) = 0 /\ AddDocumentCalls

RetrieveByVectorOnce == similarityInput = Null /\ RetrieveByVectorCall(1)

NextIndex ==
  \/ Initialize
  \/ RefreshOnce
  \/ RefreshLoaded
  \/ VocabularyBuilt
  \/ IndexStep
  \/ AddDocumentOnce
  \/ AddDocumentStored
  \/ AddDocumentStoreThrows
  \/ AddDocumentIndexed
  \/ AddDocumentEmbedThrows
  \/ RetrieveByVectorOnce
  \/ RetrieveByVectorResumes

SpecIndex == InitIndex /\ [][NextIndex]_vars


----------------------------------------------------------------------------
(* ElasticsearchDataSource: the documents of the index and the cached count *)

\* The most increments of the cached count in one history
MaxCount == 3

EsDocuments == { d1, d3, dNoId }

\* The sets of ids deleteDocuments is called with
EsDeletions == { {}, { "d1" }, { "d3", "doc_1" } }

\* ElasticsearchDataSource.addDocument(document): the document is indexed
\* under its id, the index refreshed, the cached count incremented
EsAddDocument(document) ==
  /\ cachedDocumentCount < MaxCount
  /\ \E id \in IdsFor(document) :
       dsDocs' = IndexDocument(dsDocs, [document EXCEPT !.id = id])
  /\ cachedDocumentCount' = cachedDocumentCount + 1
  /\ UNCHANGED << guardVars, hasGuardrails, embeddings, documentVectors,
                  initialized, topK, requestVars, retrieveK, retrieveResult,
                  similarityInput, routeResult, retrievePc, adding, restVars >>

\* ElasticsearchDataSource.addDocumentWithVector(document, vector): as
\* addDocument, the body holding the vector as its embedding
EsAddDocumentWithVector(document, vector) ==
  /\ cachedDocumentCount < MaxCount
  /\ \E id \in IdsFor(document) :
       dsDocs' = IndexDocument(dsDocs, [embedding |-> vector]
                                         @@ [document EXCEPT !.id = id])
  /\ cachedDocumentCount' = cachedDocumentCount + 1
  /\ UNCHANGED << guardVars, hasGuardrails, embeddings, documentVectors,
                  initialized, topK, requestVars, retrieveK, retrieveResult,
                  similarityInput, routeResult, retrievePc, adding, restVars >>

\* ElasticsearchDataSource.deleteDocuments(ids): nothing for no ids; else the
\* documents of these ids are deleted in bulk and the index refreshed
EsDeleteDocuments(ids) ==
  /\ dsDocs' = SelectSeq(dsDocs, LAMBDA doc : doc.id \notin ids)
  /\ UNCHANGED << guardVars, hasGuardrails, embeddings, documentVectors,
                  initialized, topK, requestVars, retrieveVars, restVars >>

\* ElasticsearchDataSource.deleteAll: delete by query match_all, and refresh
EsDeleteAll ==
  /\ dsDocs' = << >>
  /\ UNCHANGED << guardVars, hasGuardrails, embeddings, documentVectors,
                  initialized, topK, requestVars, retrieveVars, restVars >>

\* The number of hits of one search: size: 10000
LoadSize == 10000

\* ElasticsearchDataSource.loadDocuments, the search succeeding: the count
\* cached is the number of documents read
EsLoadDocuments ==
  /\ cachedDocumentCount' = Min(Len(dsDocs), LoadSize)
  /\ UNCHANGED << guardVars, engineVars, requestVars, retrieveK, retrieveResult,
                  similarityInput, routeResult, retrievePc, adding, restVars >>

\* ElasticsearchDataSource.loadDocuments, the search failing: the catch
\* block caches the count 0 and returns []
EsLoadDocumentsFails ==
  /\ cachedDocumentCount' = 0
  /\ UNCHANGED << guardVars, engineVars, requestVars, retrieveK, retrieveResult,
                  similarityInput, routeResult, retrievePc, adding, restVars >>

\* ElasticsearchDataSource.getDocumentCount: this._cachedDocumentCount || 0
getDocumentCount == IF cachedDocumentCount # 0 THEN cachedDocumentCount ELSE 0

\* The data source as constructed, over an empty index
InitEs ==
  /\ InitPlainGuardrails
  /\ NoTables
  /\ enabled = TRUE
  /\ rateLimit = Null

NextEs ==
  \/ \E document \in EsDocuments : EsAddDocument(document)
  \/ \E document \in EsDocuments :
       EsAddDocumentWithVector(document, embed(document.content))
  \/ \E ids \in EsDeletions : EsDeleteDocuments(ids)
  \/ EsDeleteAll
  \/ EsLoadDocuments
  \/ EsLoadDocumentsFails

SpecEs == InitEs /\ [][NextEs]_vars

----------------------------------------------------------------------------
(* Properties *)

QueryEntries == { "query", "queryWithRAG" }

\* The request in flight came in through query()
InQuery == entry \in QueryEntries

Has(ev) == \E i \in 1..Len(events) : events[i] = ev

\* validateQuery has returned for the request in flight, and rejected it
QueryRejected == InQuery /\ validation # Null /\ ~validation.allowed

HasBlockedTerm(content) ==
  \E i \in 1..Len(blockedTerms) :
    includes(toLowerCase(content), toLowerCase(blockedTerms[i]))

\* C1: with guardrails enabled, a query longer than maxQueryLength is
\* rejected by validateQuery with the reason 'Query exceeds maximum length
\* of <maxQueryLength> characters', and query() never calls
\* llm.generateResponse for it.
C1_LongQueryNeverGenerated ==
  (InQuery /\ initialized /\ hasGuardrails /\ enabled /\ StrLen(rawQuery) > maxQueryLength)
    => /\ llmArgs = << >>
       /\ ~Has("llm.generateResponse")
       /\ pc # "generating"
       /\ validation # Null
            => /\ validation.allowed = FALSE
               /\ validation.reason =
                    [msg |-> "Query exceeds maximum length of <a> characters",
                     a |-> maxQueryLength, b |-> 0]
       /\ pc = "done" => validation # Null

C1_Witness ==
  /\ InQuery /\ hasGuardrails /\ enabled /\ StrLen(rawQuery) > maxQueryLength
  /\ pc = "done" /\ result.blocked

\* The call calls[i] was rejected for rate limiting
RateRejected(i) ==
  /\ ~calls[i].result.allowed
  /\ calls[i].result.reason =
       [msg |-> "Rate limit exceeded. Maximum <a> requests per <b>/1000 seconds",
        a |-> rateLimit.requests, b |-> rateLimit.window]

\* The call calls[i] was rejected for the length of its query
LengthRejected(i) ==
  /\ ~calls[i].result.allowed
  /\ calls[i].result.reason.msg = "Query exceeds maximum length of <a> characters"

\* The earlier requests of the user of calls[i] made less than W ms before it
EarlierWithinWindow(i) ==
  { j \in 1..(i - 1) :
      /\ calls[j].user = calls[i].user
      /\ calls[i].time - calls[j].time < rateLimit.window }

\* Each request of user u comes more than W ms after the previous one
SpacedApart(u) ==
  \A i, j \in 1..Len(calls) :
    (i < j /\ calls[i].user = u /\ calls[j].user = u)
      => calls[j].time - calls[i].time > rateLimit.window

\* C2: with rateLimit = {requests: N, window: W}, for every user the
\* (N+1)-th validateQuery request within W ms is rejected with a rate-limit
\* reason, and requests of one user that each come more than W ms after the
\* previous one are never rejected for rate limiting.
C2_NPlusFirstRejected ==
  (enabled /\ rateLimit # Null)
    => /\ \A i \in 1..Len(calls) :
            Cardinality(EarlierWithinWindow(i)) >= rateLimit.requests
              => RateRejected(i)
       /\ \A u \in Users :
            SpacedApart(u)
              => \A i \in 1..Len(calls) : calls[i].user = u => ~RateRejected(i)

\* C2, amended: a request that passes the length check is rejected with a
\* rate-limit reason exactly when N or more earlier requests of the same user
\* that got past the length and the rate-limit check (the recorded ones) are
\* less than W ms old; and for N >= 1, requests of one user that each come
\* more than W ms after the previous one are never rejected for rate limiting.
C2_SlidingWindow ==
  (enabled /\ rateLimit # Null)
    => /\ \A i \in 1..Len(calls) :
            ~(StrLen(calls[i].query) > maxQueryLength)
              => (RateRejected(i)
                    <=> Cardinality({ j \in EarlierWithinWindow(i) :
                                        ~LengthRejected(j) /\ ~RateRejected(j) })
                          >= rateLimit.requests)
       /\ \A i \in 1..Len(calls) :
            StrLen(calls[i].query) > maxQueryLength => ~RateRejected(i)
       /\ rateLimit.requests >= 1
            => \A u \in Users :
                 SpacedApart(u)
                   => \A i \in 1..Len(calls) : calls[i].user = u => ~RateRejected(i)

C2_Witness ==
  /\ enabled /\ rateLimit # Null /\ rateLimit.requests = 2
  /\ Len(calls) = 3
  /\ calls[1].user = calls[3].user /\ calls[2].user = calls[3].user
  /\ calls[3].time > calls[1].time
  /\ RateRejected(3)

\* C3: when validateQuery rejects the query inside query(), query() returns
\* (it does not throw) a result with blocked = true, sources = [], the
\* rejection reason and the answer 'I cannot process this query: <reason>',
\* and llm.generateResponse is not called.
C3_RejectionIsBlockedResult ==
  QueryRejected
    => /\ pc = "done"
       /\ result.blocked = TRUE
       /\ result.sources = << >>
       /\ result.reason = validation.reason
       /\ result.answer = [prefix |-> "I cannot process this query: ",
                           body |-> Text(EmptyStr), reason |-> validation.reason]
       /\ llmArgs = << >>
       /\ ~Has("llm.generateResponse")

C3_Witness ==
  /\ QueryRejected /\ pc = "done"
  /\ validation.reason.msg = "Query contains blocked content"
  /\ Len(retrievedDocs) > 0

\* validateResponse has rejected the answer of the request in flight
ResponseRejected ==
  /\ InQuery /\ pc = "done" /\ hasGuardrails /\ answer # Null
  /\ ~validateResponse(answer).allowed

\* C4: when validateResponse rejects the generated answer, the answer
\* returned is exactly 'Response blocked: <reason>', no disclaimer is
\* appended, and the sources and the routing are the ones an accepted
\* response is returned with.
C4_ResponseBlockedKeepsSources ==
  ResponseRejected
    => /\ result.answer = [prefix |-> "Response blocked: ", body |-> Text(EmptyStr),
                           reason |-> validateResponse(answer).reason]
       /\ ~Has("applyResponsePolicies")
       /\ result.sources = SourcesOf(filteredDocs)
       /\ result.routing = routingInfo
       /\ \A a \in Answers :
            /\ QueryResult(a).sources = result.sources
            /\ QueryResult(a).routing = result.routing

C4_Witness ==
  /\ ResponseRejected
  /\ Len(disclaimersFor(query)) > 0
  /\ Len(result.sources) > 0
  /\ routingInfo # Null

\* C5: with guardrails configured, every non-streaming entry point calls the
\* generation backend only after validateQuery has allowed the query, and
\* returns a generated answer only after validateResponse has been applied
\* to it.
C5_EveryEntryPointGuarded ==
  (hasGuardrails /\ entry # "")
    => /\ Has("llm.generateResponse")
            => /\ validation # Null
               /\ validation.allowed
               /\ \E i, j \in 1..Len(events) :
                    /\ i < j
                    /\ events[i] = "validateQuery"
                    /\ events[j] = "llm.generateResponse"
       /\ (pc = "done" /\ answer # Null) => Has("validateResponse")

\* C6: for query(q, options) with options.mode = 'llm', whatever the other
\* options and the index, no retrieval is performed and llm.generateResponse
\* receives an empty context.
C6_LlmModeNoRetrieval ==
  (InQuery /\ options.mode = "llm")
    => /\ pc # "retrieving"
       /\ ~Has("retrieve") /\ ~Has("embeddings.embed") /\ ~Has("dataSource.search")
       /\ \A i \in 1..Len(llmArgs) : llmArgs[i].context = << >>

C6_Witness ==
  /\ InQuery /\ options.mode = "llm" /\ options.systemPrompt = "custom"
  /\ pc = "done" /\ answer # Null /\ Len(llmArgs) = 1
  /\ Cardinality(DOMAIN documentVectors) > 0

\* The request in flight asked for the mode auto and has returned a result
\* that is not a blocked one
AutoAnswered ==
  /\ InQuery /\ pc = "done" /\ options.mode = "auto" /\ ~result.blocked

\* C7: for query(q, options) with options.mode = 'auto' and every combination
\* of the other options: when topScore >= routingThreshold the mode returned
\* is 'hybrid' and generation receives the filtered documents; otherwise the
\* mode returned is 'llm', generation receives an empty context and the
\* filtered documents are still listed in result.sources.
C7_AutoRouting ==
  AutoAnswered
    => IF routingInfo.topScore >= routingThreshold
         THEN /\ result.mode = "hybrid"
              /\ llmArgs[1].context = filteredDocs
         ELSE /\ result.mode = "llm"
              /\ llmArgs[1].context = << >>
              /\ result.sources = SourcesOf(filteredDocs)

\* C8: validateQuery is applied before retrieval: a query that validateQuery
\* rejects causes no retrieval work (no embeddings.embed call, no
\* dataSource.search call).
C8_NoRetrievalForRejected ==
  QueryRejected
    => ~Has("retrieve") /\ ~Has("embeddings.embed") /\ ~Has("dataSource.search")

\* C8, amended: validateQuery is applied after retrieval and before the
\* document filter and generation.  For a query that validateQuery rejects,
\* retrieval has run (one embeddings.embed or dataSource.search call) unless
\* the mode is 'llm', and neither validateDocument nor llm.generateResponse is
\* called.
C8_ValidationAfterRetrieval ==
  /\ QueryRejected
       => /\ Has("retrieve") <=> options.mode # "llm"
          /\ Has("embeddings.embed") \/ Has("dataSource.search") <=> options.mode # "llm"
          /\ events[Len(events)] = "validateQuery"
          /\ ~Has("validateDocument")
          /\ ~Has("llm.generateResponse")
  /\ \A i, j \in 1..Len(events) :
       (events[i] = "validateQuery"
          /\ events[j] \in { "retrieve", "embeddings.embed", "dataSource.search" })
         => j < i

C8_Witness ==
  /\ QueryRejected /\ Has("embeddings.embed")
  /\ validation.reason.msg = "Query contains blocked content"

\* C9: with guardrails enabled, every document passed to
\* llm.generateResponse and every document listed in result.sources has
\* passed validateDocument: none has a blocked term in its lower-cased
\* content.
C9_OnlyValidatedDocuments ==
  (InQuery /\ hasGuardrails /\ enabled)
    => /\ \A i \in 1..Len(llmArgs) :
            \A j \in 1..Len(llmArgs[i].context) :
              ~HasBlockedTerm(llmArgs[i].context[j].content)
       /\ pc = "done"
            => \A j \in 1..Len(result.sources) :
                 ~HasBlockedTerm(result.sources[j].content)

C9_Witness ==
  /\ InQuery /\ hasGuardrails /\ enabled /\ pc = "done"
  /\ \E i \in 1..Len(retrievedDocs) : HasBlockedTerm(retrievedDocs[i].content)
  /\ Len(result.sources) > 0
  /\ Len(llmArgs) = 1 /\ Len(llmArgs[1].context) > 0

\* C10: for every engine state and every k >= 1, retrieve(query, k) returns
\* at most k results, in non-increasing score order.
C10_AtMostKDescending ==
  /\ Len(retrieveResult) <= retrieveK
  /\ \A i, j \in 1..Len(retrieveResult) :
       i < j => retrieveResult[i].score >= retrieveResult[j].score

C10_Witness ==
  /\ embeddings /\ Cardinality(DOMAIN documentVectors) = 3
  /\ retrieveK = 2 /\ Len(retrieveResult) = 2
  /\ retrieveResult[1].score > retrieveResult[2].score

C12_RouteQueryReasons ==
  routeResult # Null
    => /\ routeResult.reason =
            (IF Len(retrieveResult) = 0 THEN "no_documents"
             ELSE IF retrieveResult[1].score < routingThreshold THEN "low_relevance"
             ELSE "relevant_content")
       /\ routeResult.useRAG <=> routeResult.reason = "relevant_content"
       /\ routeResult.docs = retrieveResult
       /\ Len(retrieveResult) = 0 => routeResult.docs = << >>

C12_Witness ==
  /\ routeResult # Null /\ routeResult.reason = "relevant_content"
  /\ routeResult.topScore = routingThreshold
  /\ Len(routeResult.docs) = 3

\* An initialize() has completed and no close() has completed since
Ready == lifecycle.completed = "initialize"

\* C13: query(), queryStream() and queryDirectLLM() refuse every request
\* with 'RAG engine not initialized' in every state where initialize() has
\* not completed: before initialize(), after an initialize() that threw
\* (data source or LLM missing, or a collaborator threw), and after close().
\* A refused request makes no collaborator call and yields no event.
C13_RefusedUntilInitialized ==
  (entry \in { "query", "queryStream", "queryDirectLLM" } /\ ~Ready)
    => /\ pc = "threw"
       /\ result = [error |-> "RAG engine not initialized. Call initialize() first."]
       /\ events = << >> /\ llmArgs = << >> /\ emitted = << >>

C13_Witness ==
  /\ entry = "queryStream" /\ pc = "threw"
  /\ lifecycle = [completed |-> "close", failed |-> "initialize"]
  /\ Cardinality(DOMAIN documentVectors) > 0

\* The number of calls ev among the calls of the request
Count(ev) == Cardinality({ i \in 1..Len(events) : events[i] = ev })

\* The disclaimers that match the sanitized query of the request
MatchingDisclaimers ==
  LET q == toLowerCase(sanitizeInput(rawQuery))
  IN  { d \in { "medical", "legal", "financial" } :
          \/ d = "medical" /\ IncludesAny(q, medicalKeywords)
          \/ d = "legal" /\ IncludesAny(q, legalKeywords)
          \/ d = "financial" /\ IncludesAny(q, financialKeywords) }

DisclaimerText(d) ==
  IF d = "medical" THEN MedicalDisclaimer
  ELSE IF d = "legal" THEN LegalDisclaimer ELSE FinancialDisclaimer

\* The number of times a disclaimer stands in the blocks appended to a text
Occurrences(t, line) ==
  Cardinality({ p \in { << i, j >> : i \in 1..Len(t.tail), j \in 1..3 } :
                  /\ p[2] <= Len(t.tail[p[1]])
                  /\ t.tail[p[1]][p[2]] = line })

\* C14: in query(), for every accepted response applyResponsePolicies is
\* called exactly once, with the sanitized query and the sanitized answer,
\* so every disclaimer that matches the sanitized query stands exactly once
\* in the final answer (and no other does); for a rejected response it is
\* not called.
C14_PoliciesAppliedOnce ==
  (InQuery /\ pc = "done" /\ hasGuardrails /\ answer # Null)
    => IF validateResponse(answer).allowed
         THEN /\ Count("applyResponsePolicies") = 1
              /\ result.answer.prefix = ""
              /\ result.answer.body.text = sanitizeOutput(answer)
              /\ \A d \in { "medical", "legal", "financial" } :
                   Occurrences(result.answer.body, DisclaimerText(d))
                     = (IF d \in MatchingDisclaimers THEN 1 ELSE 0)
         ELSE /\ Count("applyResponsePolicies") = 0
              /\ result.answer.body.tail = << >>

C14_Witness ==
  /\ InQuery /\ pc = "done" /\ hasGuardrails /\ answer # Null
  /\ validateResponse(answer).allowed
  /\ "legal" \in MatchingDisclaimers
  /\ sanitizeOutput(answer) # answer
  /\ ~includes(toLowerCase(rawQuery), Str(<< "l", "a", "w" >>))

\* The events of a type among the events yielded
EventsOfType(type) == { i \in 1..Len(emitted) : emitted[i].type = type }

\* The first of two calls comes before the second among the calls of the request
Before(first, second) ==
  \A i, j \in 1..Len(events) :
    (events[i] = first /\ events[j] = second) => i < j

\* C15: the events queryStream() yields are one 'sources' event first,
\* yielded before the backend stream is started, then one 'content' event per
\* chunk of the backend, in its order and with the chunk unchanged, then one
\* 'done' event last; 'done' comes only after the backend stream is
\* exhausted and never when it throws.
C15_StreamEventOrder ==
  entry = "queryStream"
    => /\ pc \in { "threw", "stream retrieving" } /\ stream = Null => emitted = << >>
       /\ pc \notin { "idle", "stream retrieving" } /\ initialized
            => /\ Len(emitted) >= 1
               /\ emitted[1] = SourcesEvent(retrievedDocs)
       /\ EventsOfType("sources") \subseteq { 1 }
       /\ Before("yield sources", "llm.generateStreamingResponse")
       /\ stream # Null
            => /\ Has("yield sources")
               /\ EventsOfType("content") = 2..(stream.pos + 1)
               /\ \A i \in 2..(stream.pos + 1) :
                    emitted[i].content = stream.chunks[i - 1]
               /\ EventsOfType("done") \subseteq { stream.pos + 2 }
               /\ EventsOfType("done") # { }
                    <=> stream.state = "exhausted"
               /\ stream.state = "exhausted"
                    => stream.pos = Len(stream.chunks) /\ ~stream.fails
               /\ Len(emitted) = 1 + stream.pos + Cardinality(EventsOfType("done"))
               /\ pc = "threw" => EventsOfType("done") = { }
               /\ (pc = "done" /\ stream.state # "returned"
                      /\ stream.state # "not started")
                    => stream.state = "exhausted"
       /\ stream = Null => Len(emitted) <= 1

C15_Witness ==
  /\ entry = "queryStream" /\ pc = "done" /\ stream # Null
  /\ stream.state = "exhausted" /\ Len(stream.chunks) = 2
  /\ stream.chunks[1] # stream.chunks[2]
  /\ Len(emitted) = 4 /\ Len(emitted[1].sources) = 2
  /\ \E i \in 1..2 : emitted[1].sources[i].content.ellipsis

\* The ids of the documents the data source returns
DataSourceIds == { dsDocs[i].id : i \in 1..Len(dsDocs) }

\* C16: after refresh() completes, the vector index holds exactly the
\* documents the data source returns: every one of them has an entry, and a
\* document that is no longer in the data source is no longer in the index.
C16_IndexMatchesDataSource ==
  (refreshPc = "done" /\ embeddings)
    => /\ DOMAIN documentVectors = DataSourceIds
       /\ \A i \in 1..Len(dsDocs) :
            documentVectors[dsDocs[i].id].content = dsDocs[i].content

\* The entries that a step sets or changes
EntriesChanged ==
  { id \in DOMAIN documentVectors' :
      id \notin DOMAIN documentVectors \/ documentVectors'[id] # documentVectors[id] }

\* A step that sets the entry of at most one document, removes none, and
\* sets none when it replaces the vocabulary
OneEntryAtMost ==
  /\ vocabulary' # vocabulary => documentVectors' = documentVectors
  /\ DOMAIN documentVectors \subseteq DOMAIN documentVectors'
  /\ Cardinality(EntriesChanged) <= 1

\* C17: refresh() does not replace the index in one assignment.  The step
\* that rebuilds the vocabulary leaves every entry with its old vector, and
\* each step of the re-indexing sets the entry of one document and leaves
\* the others as they are, so between the steps the index holds vectors of
\* the new vocabulary next to vectors of the old one, and a retrieval that
\* runs then reads them.
C17_IndexRebuiltEntryByEntry ==
  [][(refreshPc \in { "vocabulary", "indexing" }) => OneEntryAtMost]_vars

\* A retrieval has read the index while refresh() is suspended in the
\* re-indexing: an entry already re-embedded holds a vector of the new
\* vocabulary, an entry of a document still to come a vector of the old one
C17_Witness ==
  /\ refreshPc = "indexing"
  /\ similarityInput # Null
  /\ similarityInput.documents = { documentVectors[id] : id \in DOMAIN documentVectors }
  /\ \E i \in 1..Len(buildQueue) :
       /\ buildQueue[i].id \in DOMAIN documentVectors
       /\ documentVectors[buildQueue[i].id].vector.vocabulary # vocabulary
  /\ \E id \in DataSourceIds :
       /\ id \in DOMAIN documentVectors
       /\ \A i \in 1..Len(buildQueue) : buildQueue[i].id # id
       /\ documentVectors[id].vector.vocabulary = vocabulary

\* A term of the blocked-term table is in the lower-cased text
TermIn(tables, lowerText) ==
  \E i \in 1..Len(tables.blockedTerms) :
    includes(lowerText, toLowerCase(tables.blockedTerms[i]))

\* The documents that pass validateDocument under the tables
DocsPassing(tables, docs) ==
  SelectSeq(docs, LAMBDA doc : ~TermIn(tables, toLowerCase(doc.content)))

\* query() has validated its query
Validated == InQuery /\ hasGuardrails /\ validation # Null

\* The verdict on the query, the documents kept and the sources of the
\* result all follow from the tables read at validation
OneTableVersion ==
  /\ validation.reason = BlockedContentReason
       => TermIn(tablesSeen.atValidation, toLowerCase(validation.sanitized))
  /\ validation.allowed
       => /\ ~TermIn(tablesSeen.atValidation, toLowerCase(validation.sanitized))
          /\ filteredDocs = DocsPassing(tablesSeen.atValidation, retrievedDocs)
          /\ llmArgs[1].context = filteredDocs
          /\ pc = "done" => result.sources = SourcesOf(filteredDocs)

\* C18 as stated: the validateQuery call and the validateDocument calls of
\* one query() observe the same tables, and updatePolicies takes effect only
\* between requests: the tables a request is validated against are those in
\* force when it was called.
C18_UpdateOnlyBetweenRequests ==
  Validated => /\ OneTableVersion
               /\ tablesSeen.atValidation = tablesSeen.atCall

\* C18, amended: the validateQuery call and the validateDocument calls of
\* one query() run without a suspension between them, after retrieval, and
\* observe the same tables; the verdict, the documents given to the backend
\* and the sources of the result follow from the tables as they are then,
\* whatever updatePolicies does while the request waits for the backend.
C18_TablesReadOnceAtValidation ==
  Validated => OneTableVersion

\* A request called under one version of the tables and validated under
\* another, because updatePolicies ran during its retrieval; a further
\* update during generation, under which one more of its documents would
\* be dropped, has left its sources alone
C18_Witness ==
  /\ Validated /\ validation.allowed /\ pc = "done"
  /\ tablesSeen.atCall # tablesSeen.atValidation
  /\ TablesNow # tablesSeen.atValidation
  /\ Len(filteredDocs) < Len(retrievedDocs)
  /\ FilterDocs(retrievedDocs) # filteredDocs
  /\ result.sources = SourcesOf(filteredDocs)

\* C19: when the data source, the embedding function or the generation
\* backend throws during query(), query() ends with that error and without a
\* result, and calls nothing after the throw; in one query() retrieval is
\* attempted at most once and llm.generateResponse is called at most once.
C19_ErrorsPropagate ==
  InQuery =>
    /\ Count("retrieve") <= 1
    /\ Count("llm.generateResponse") <= 1
    /\ Has("throw") => /\ pc = "threw"
                       /\ events[Len(events)] = "throw"
                       /\ result = Thrown(events[Len(events) - 1])
                       /\ answer = Null

\* Retrieval has returned and the generation backend has thrown
C19_Witness ==
  /\ InQuery /\ pc = "threw"
  /\ Count("retrieve") = 1
  /\ result = Thrown("llm.generateResponse")

\* A term of the list is in the lower-cased text
ListedIn(terms, lowerText) ==
  \E i \in 1..Len(terms) : includes(lowerText, toLowerCase(terms[i]))

\* C20: validateQuery rejects, with the reason 'Query contains blocked
\* content', every query whose sanitized, lower-cased text contains a blocked
\* term, be it a term of the configured list or a term of the blocked-term
\* list of the default policy (such as 'malware'), which applies also to an
\* instance built without a blockedTerms configuration.
C20_BlockedTermsRejected ==
  \A i \in 1..Len(calls) :
    LET lowerQuery == toLowerCase(sanitizeInput(calls[i].query))
    IN  (ListedIn(blockedTerms, lowerQuery) \/ ListedIn(policies.blockedTerms, lowerQuery))
          => /\ ~calls[i].result.allowed
             /\ calls[i].result.reason = BlockedContentReason

\* C21: sanitizeInput is idempotent: applied to its own result it returns
\* that result.
C21_SanitizeInputIdempotent ==
  Len(calls) = 2 => calls[2].result = calls[1].result

\* C22: when options.systemPrompt is given to query(), llm.generateResponse
\* receives that prompt, whatever the mode asked for; when it is not given,
\* the mode hybrid (also as the default) gives the hybrid prompt, the mode llm
\* the direct-answer prompt, and the mode rag a null prompt.
C22_PromptOverrideOrModeTable ==
  (InQuery /\ Len(llmArgs) = 1)
    => IF options.systemPrompt # "undefined"
         THEN llmArgs[1].systemPrompt = options.systemPrompt
         ELSE /\ RequestedMode(options) = "hybrid"
                   => llmArgs[1].systemPrompt = "getHybridPrompt"
              /\ options.mode = "llm"
                   => llmArgs[1].systemPrompt = "getDirectLLMPrompt"
              /\ options.mode = "rag" => llmArgs[1].systemPrompt = "null"

\* query() called with a prompt of the caller and the mode rag has answered
C22_Witness ==
  /\ InQuery /\ pc = "done" /\ answer # Null
  /\ options.systemPrompt = "custom" /\ options.mode = "rag"
  /\ llmArgs[1].systemPrompt = "custom"

\* C23: with guardrails enabled, the query field of every result query()
\* returns is the sanitized form of the query it was given, and the text
\* handed to llm.generateResponse is the sanitized query.
C23_SanitizedQueryEverywhere ==
  (InQuery /\ hasGuardrails /\ enabled)
    => /\ pc = "done" => result.query = sanitizeInput(rawQuery)
       /\ \A i \in 1..Len(llmArgs) : llmArgs[i].query = sanitizeInput(rawQuery)

\* The entry calls[i] is a validateQuery call
IsValidate(i) == "query" \in DOMAIN calls[i]

\* The entry calls[k] is a resetRateLimit(u) or a clearRateLimits call
ResetsUser(k, u) ==
  /\ ~IsValidate(k)
  /\ calls[k].reset = "clearRateLimits" \/ calls[k].user = u

\* The earlier requests of the user of calls[i] that were recorded, are less
\* than W ms old, and have not been removed by a reset since
CountedFor(i) ==
  { j \in 1..(i - 1) :
      /\ IsValidate(j)
      /\ calls[j].user = calls[i].user
      /\ calls[i].time - calls[j].time < rateLimit.window
      /\ ~LengthRejected(j) /\ ~RateRejected(j)
      /\ \A k \in (j + 1)..(i - 1) : ~ResetsUser(k, calls[i].user) }

\* C24: the rate-limit state is per user.  Whether a request of user u is
\* throttled follows from the requests of u alone: those recorded in the
\* window and not removed since by resetRateLimit(u) or clearRateLimits.
\* Requests of other users, and resetRateLimit of another user, change
\* nothing for u.
C24_RateLimitPerUser ==
  \A i \in 1..Len(calls) :
    (IsValidate(i) /\ ~(StrLen(calls[i].query) > maxQueryLength))
      => (RateRejected(i) <=> Cardinality(CountedFor(i)) >= rateLimit.requests)

\* A user is throttled although the list of another user has been reset
\* since the request that counts against them
C24_Witness ==
  /\ Len(calls) = 3 /\ rateLimit.requests = 1
  /\ IsValidate(1) /\ ~IsValidate(2) /\ IsValidate(3)
  /\ calls[1].user = calls[3].user
  /\ calls[2].reset = "resetRateLimit" /\ calls[2].user # calls[3].user
  /\ RateRejected(3)

\* The request in flight is a queryStream call
InStream == entry = "queryStream"

\* C25: queryStream() applies no guardrails: it calls none of validateQuery,
\* validateDocument, validateResponse and applyResponsePolicies and leaves
\* the rate-limit map as it is; the backend receives the query as given and
\* every retrieved document, the sources event lists every retrieved
\* document, and every chunk of the backend is relayed as it is.
C25_StreamUnguarded ==
  InStream
    => /\ ~Has("validateQuery") /\ ~Has("validateDocument")
       /\ ~Has("validateResponse") /\ ~Has("applyResponsePolicies")
       /\ validation = Null
       /\ requestCounts = << >>
       /\ pc \in { "stream retrieving", "stream sources", "streaming" }
            => query = rawQuery
       /\ Len(emitted) >= 1 => emitted[1] = SourcesEvent(retrievedDocs)
       /\ \A i \in 1..Len(llmArgs) :
            llmArgs[i].query = rawQuery /\ llmArgs[i].context = retrievedDocs
       /\ \A i \in 2..Len(emitted) :
            emitted[i].type = "content"
              => emitted[i] = ContentEvent(stream.chunks[i - 1])

\* A stream run to its end, with guardrails and a rate limit that the
\* non-streaming path would apply: a query with a blocked term, a retrieved
\* document with a blocked term, and a chunk that validateResponse rejects
C25_Witness ==
  /\ InStream /\ hasGuardrails /\ rateLimit # Null /\ pc = "done"
  /\ ~validateQuery(rawQuery, "default").allowed
  /\ \E i \in 1..Len(retrievedDocs) : ~validateDocument(retrievedDocs[i].content).allowed
  /\ \E i \in 2..Len(emitted) :
       /\ emitted[i].type = "content"
       /\ ~validateResponse(emitted[i].content).allowed
  /\ emitted[Len(emitted)] = DoneEvent

\* The documents query() hands to llm.generateResponse for the options and
\* the retrieved documents of the request in flight
ContextOfQuery ==
  LET m == RequestedMode(options)
  IN  GenerationContext(
        PromptAndMode(m, options.systemPrompt, RoutingInfoOf(retrievedDocs)).mode,
        FilterDocs(DocsAfterSwitch(m, options.systemPrompt, retrievedDocs)))

\* C26: queryStream() performs the retrieval step of query(): it retrieves
\* exactly when query() does for the same options (not when the mode is
\* 'llm'), with the same topK, and hands to the backend the documents query()
\* would hand over.
C26_StreamRetrievesAsQuery ==
  (InStream /\ pc # "threw")
    => /\ Has("retrieve") <=> ~RetrievalSkipped(RequestedMode(options))
       /\ \A i \in 1..Len(llmArgs) : llmArgs[i].context = ContextOfQuery

\* C27: without embeddings, or with embeddings and an empty vector index,
\* retrieve(query, topK) takes the path of dataSource.search(query, topK) and
\* returns what the search returns: a list, never an error.
C27_FallsBackToSearch ==
  (retrieveK >= 1 /\ (~embeddings \/ ~initialized \/ Len(dsDocs) = 0))
    => /\ similarityInput = Null
       /\ retrieveResult \in search(dsDocs, retrieveK)

\* Embeddings are configured, the index has not been built, and a retrieval
\* has returned the two documents the search found
C27_Witness ==
  /\ embeddings /\ Cardinality(DOMAIN documentVectors) = 0
  /\ retrieveK = 2 /\ Len(retrieveResult) = 2

\* The entry calls[i] is a validateResponse call
IsResponseCall(i) == "response" \in DOMAIN calls[i]

\* The entry calls[i] is a validateDocument call
IsDocumentCall(i) == "content" \in DOMAIN calls[i]

TopicsIn(lowerText) ==
  { i \in 1..Len(sensitiveTopics) : includes(lowerText, toLowerCase(sensitiveTopics[i])) }

\* C29: a sensitive topic never causes rejection.  validateQuery rejects for
\* length, rate limit or a blocked term only; a query it allows has warnings
\* exactly when a sensitive topic is a substring of its sanitized, lower-cased
\* text, the warnings list the topics found, and query() returns them as
\* result.warnings (null when there are none).
C29_SensitiveTopicsWarnOnly ==
  (InQuery /\ hasGuardrails /\ validation # Null)
    => LET lowerQuery == toLowerCase(sanitizeInput(rawQuery))
       IN  /\ ~validation.allowed
                => \/ validation.reason = QueryLengthReason
                   \/ rateLimit # Null /\ validation.reason = RateLimitReason
                   \/ validation.reason = BlockedContentReason
           /\ validation.allowed
                => /\ validation.warnings # Null <=> TopicsIn(lowerQuery) # { }
                   /\ validation.warnings # Null
                        => /\ Len(validation.warnings.sensitiveTopics)
                                = Cardinality(TopicsIn(lowerQuery))
                           /\ validation.warnings.message = SensitiveMessage
                   /\ pc = "done" => result.warnings = validation.warnings

\* query() has answered a query on a sensitive topic, with the warnings
C29_Witness ==
  /\ InQuery /\ hasGuardrails /\ pc = "done" /\ rawQuery = qLaw
  /\ ~result.blocked /\ result.warnings # Null
  /\ Len(result.warnings.sensitiveTopics) = 1

\* C30: a response within the length limit is rejected with 'Response
\* contains inappropriate content' whenever its sanitized, lower-cased text
\* contains an explicit-content term, whatever its length; without such a
\* term it is rejected with 'Response may contain violent content' when it
\* contains a violence term and the sanitized text is shorter than 500
\* characters, and allowed when it contains a violence term and the sanitized
\* text has 500 characters or more.
C30_ResponseModeration ==
  \A i \in 1..Len(calls) :
    (IsResponseCall(i) /\ enabled /\ StrLen(calls[i].response) <= maxResponseLength)
      => LET sanitized == sanitizeOutput(calls[i].response)
             explicit  == IncludesAny(toLowerCase(sanitized), explicitTerms)
             violent   == IncludesAny(toLowerCase(sanitized), violenceTerms)
             verdict   == calls[i].result
         IN  /\ explicit
                  => ~verdict.allowed /\ verdict.reason = InappropriateReason
             /\ (~explicit /\ violent /\ StrLen(sanitized) < ShortResponseLength)
                  => ~verdict.allowed /\ verdict.reason = ViolentReason
             /\ (~explicit /\ violent /\ StrLen(sanitized) >= ShortResponseLength)
                  => verdict.allowed

\* Three calls: a violence term in 499 characters, rejected; a violence term
\* in 497 characters that the sanitizer makes 500, allowed; an explicit term
\* in a long response, rejected
C30_Witness ==
  /\ Len(calls) = 3 /\ IsResponseCall(1) /\ IsResponseCall(2) /\ IsResponseCall(3)
  /\ StrLen(calls[1].response) = 499 /\ calls[1].result.reason = ViolentReason
  /\ StrLen(calls[2].response) = 497 /\ calls[2].result.allowed
  /\ StrLen(calls[2].result.sanitized) = 500
  /\ StrLen(calls[3].response) = 604 /\ calls[3].result.reason = InappropriateReason

\* C31: query() called without a mode applies smart routing: a query whose
\* top retrieval score is below routingThreshold is answered in mode 'llm'
\* with an empty generation context, whatever the documents retrieved.
C31_DefaultIsSmartRouting ==
  (InQuery /\ pc = "done" /\ options.mode = "undefined" /\ ~result.blocked
     /\ routingInfo.topScore < routingThreshold)
    => /\ result.mode = "llm"
       /\ llmArgs[1].context = << >>

\* C32: queryWithRAG(query, options) forces the mode rag: the mode returned
\* is 'rag', generation receives the filtered retrieved documents, and the
\* system prompt handed to the backend is null unless options.systemPrompt
\* is given.
C32_QueryWithRAGForcesRag ==
  (entry = "queryWithRAG" /\ pc = "done" /\ ~result.blocked)
    => /\ result.mode = "rag"
       /\ llmArgs[1].context = filteredDocs
       /\ llmArgs[1].systemPrompt =
            (IF options.systemPrompt # "undefined" THEN options.systemPrompt
                                                   ELSE "null")

\* The {id, score} pairs of a list of results or of candidates
IdsAndScores(seq) == [i \in 1..Len(seq) |-> [id |-> seq[i].id, score |-> seq[i].score]]

\* The candidates returned by findSimilar to the last retrieval
Candidates == similarityInput.similarities

\* The positions of the candidates at or above the similarity threshold
Reaching == { i \in 1..Len(Candidates) : Candidates[i].score >= similarityThreshold }

\* C33: retrieveByVector asks findSimilar for topK * 2 candidates.  If any
\* candidate reaches similarityThreshold, the result is the first (up to topK)
\* candidates at or above the threshold, in candidate order, and none below
\* it; if none reaches it, the result is the first min(topK, #candidates)
\* candidates.
C33_ThresholdThenFallback ==
  similarityInput # Null
    => /\ similarityInput.limit = retrieveK * 2
       /\ Len(Candidates) <= retrieveK * 2
       /\ IF Reaching # {}
            THEN /\ Len(retrieveResult) = Min(retrieveK, Cardinality(Reaching))
                 /\ \A n \in 1..Len(retrieveResult) :
                      \E i \in Reaching :
                        /\ Cardinality({ j \in Reaching : j < i }) = n - 1
                        /\ retrieveResult[n].id = Candidates[i].id
                        /\ retrieveResult[n].score = Candidates[i].score
            ELSE /\ Len(retrieveResult) = Min(retrieveK, Len(Candidates))
                 /\ IdsAndScores(retrieveResult)
                      = IdsAndScores(Take(Candidates, retrieveK))

\* one call where two of three candidates reach the threshold
C33_Witness ==
  /\ similarityInput # Null /\ retrieveK = 2
  /\ Len(Candidates) = 3 /\ Cardinality(Reaching) = 2
  /\ Len(retrieveResult) = 2 /\ retrieveResult[2].score >= similarityThreshold

\* one call where no candidate reaches the threshold
C33_WitnessFallback ==
  /\ similarityInput # Null /\ retrieveK = 2
  /\ Len(Candidates) = 3 /\ Reaching = {}
  /\ Len(retrieveResult) = 2

\* validateQuery returns in this step, for the request of query()
ValidatedNow == validation = Null /\ validation' # Null

\* The timestamps of the user still inside the window when validateQuery runs
InWindow(u) ==
  IF u \in DOMAIN requestCounts
    THEN { i \in 1..Len(requestCounts[u]) : now - requestCounts[u][i] < rateLimit.window }
    ELSE {}

\* The rate-limit map is as it was, but for the list of user u
OthersUntouched(u) ==
  /\ DOMAIN requestCounts' = DOMAIN requestCounts \cup { u }
  /\ \A w \in DOMAIN requestCounts \ { u } : requestCounts'[w] = requestCounts[w]

FrameOfValidation ==
  LET u == UserOf(options')
      v == validation'
  IN  IF StrLen(rawQuery') > maxQueryLength
        THEN /\ ~v.allowed /\ v.reason = QueryLengthReason
             /\ requestCounts' = requestCounts
      ELSE IF Cardinality(InWindow(u)) >= rateLimit.requests
        THEN /\ ~v.allowed /\ v.reason = RateLimitReason
             /\ requestCounts' = requestCounts
      ELSE /\ v.allowed \/ v.reason = BlockedContentReason
           /\ OthersUntouched(u)
           /\ Len(requestCounts'[u]) = Cardinality(InWindow(u)) + 1
           /\ requestCounts'[u][Len(requestCounts'[u])] = now

\* llm.generateResponse throws in this step
GenerationFails == pc = "generating" /\ pc' = "threw"

\* C34: validateQuery checks, in this order, the length, the rate limit and
\* the blocked terms.  A request rejected for its length or by the rate
\* limit leaves the rate-limit map unchanged; a request that passes the
\* rate-limit check records its timestamp, also when it is then rejected for
\* blocked content, and the timestamp stays when generation later fails.
C34_RateLimitFrame ==
  [][/\ ValidatedNow => FrameOfValidation
     /\ GenerationFails
          => /\ requestCounts' = requestCounts
             /\ UserOf(options) \in DOMAIN requestCounts
             /\ Len(requestCounts[UserOf(options)]) > 0]_vars

\* a blocked query has left its timestamp behind
C34_Witness ==
  /\ pc = "done" /\ rawQuery = qBlocked /\ result.blocked
  /\ validation.reason = BlockedContentReason
  /\ now = 1
  /\ "default" \in DOMAIN requestCounts /\ requestCounts["default"] = << 1 >>

\* generation has failed for a request whose timestamp is recorded
C34_WitnessFailure ==
  /\ pc = "threw" /\ result = Thrown("llm.generateResponse")
  /\ "u2" \in DOMAIN requestCounts /\ requestCounts["u2"] = << now >>

\* The last call logged is a validateQuery that was accepted
LastAccepted ==
  /\ Len(calls) > 0
  /\ IsValidate(Len(calls))
  /\ calls[Len(calls)].result.allowed

\* C35: under a fixed rateLimit {requests: N, window: W} and any sequence of
\* validateQuery, resetRateLimit and clearRateLimits, the list stored for a
\* user never holds more than N entries, and right after an accepted request
\* every stored timestamp of that user is less than W old.
C35_StoredListBounded ==
  /\ \A u \in DOMAIN requestCounts : Len(requestCounts[u]) <= rateLimit.requests
  /\ LastAccepted
       => LET c == calls[Len(calls)]
          IN  /\ c.user \in DOMAIN requestCounts
              /\ \A i \in 1..Len(requestCounts[c.user]) :
                   /\ requestCounts[c.user][i] <= c.time
                   /\ c.time - requestCounts[c.user][i] < rateLimit.window

\* an accepted request has dropped the expired timestamp of an earlier one
C35_Witness ==
  /\ LastAccepted /\ Len(calls) = 2
  /\ IsValidate(1) /\ calls[1].result.allowed
  /\ calls[1].user = calls[2].user
  /\ calls[2].time >= calls[1].time + rateLimit.window
  /\ requestCounts[calls[2].user] = << calls[2].time >>

\* C36: in every interleaving of retrieveByVector with refresh() and
\* addDocument(), every id returned by findSimilar resolves to an entry of
\* the index: the snapshot and the lookups run without an await between
\* them, the entries are stored under their own ids and none is ever deleted.
C36_CandidatesResolve ==
  similarityInput # Null
    => \A i \in 1..Len(Candidates) :
         /\ Candidates[i].id \in DOMAIN documentVectors
         /\ documentVectors[Candidates[i].id].id = Candidates[i].id

\* a retrieval has returned an added document while refresh() rebuilds the
\* index
C36_Witness ==
  /\ similarityInput # Null /\ retrievePc = "idle"
  /\ Len(Candidates) = 2 /\ Len(retrieveResult) = 1
  /\ retrieveResult[1].id \in GeneratedIds
  /\ refreshPc = "indexing" /\ Len(buildQueue) = 1

\* C37: RAGEngine.addDocument keeps the data source and the index
\* consistent: with embeddings, after any sequence of addDocument calls,
\* those where embeddings.embed throws included, the ids added to the data
\* source are the ids added to the index (a failed addDocument changes
\* neither).
C37_AddDocumentKeepsBothConsistent ==
  (embeddings /\ initialized /\ adding = Null)
    => IdsOf(dsDocs) = DOMAIN documentVectors

\* The blocked result of the same request on the engine that differs in its
\* documents alone and holds none: retrieval finds nothing
BlockedOnEmptyCorpus ==
  LET m       == RequestedMode(options)
      routing == IF RetrievalSkipped(m) THEN Null ELSE RoutingInfoOf(<< >>)
      pm      == PromptAndMode(m, options.systemPrompt, routing)
  IN  BlockedResult(validation, rawQuery, pm.mode, routing)

\* C38: a blocked result of query() reveals nothing about the corpus: two
\* engines that differ only in their documents return, for the same rejected
\* query, identical blocked results (answer, sources, query, mode, routing
\* and reason).
C38_BlockedResultHidesCorpus ==
  (InQuery /\ pc = "done" /\ result.blocked)
    => result = BlockedOnEmptyCorpus

\* C39: ElasticsearchDataSource.getDocumentCount() is the number of distinct
\* documents in the index after any sequence of addDocument,
\* addDocumentWithVector, deleteDocuments, deleteAll and loadDocuments calls,
\* re-adding an existing id and deleting included.
C39_CountIsNumberOfDocuments ==
  getDocumentCount = Cardinality(IdsOf(dsDocs))

====
